---- MODULE Spec2Model ----
(***************************************************************************)
(* A model of the fetch engine of PC-Data-Dash:                            *)
(*   - FetchHandler.get          (src/src/fetch/fetch_handler.py)          *)
(*   - UNSDGFetcher.fetch_indicator_data                                   *)
(*                               (src/src/fetch/un_sdg_fetch.py)           *)
(*   - WorldBankClient.fetch / fetch_indicator                             *)
(*                               (src/src/fetch/world_bank_fetch.py)       *)
(*   - UNSDGFetcher._get_country_codes                                     *)
(*                               (src/src/fetch/un_sdg_fetch.py)           *)
(*   - FetchData.fetch           (src/src/fetch/fetch_data.py)             *)
(*   - UNSDGCleaner.clean_data   (src/src/clean/un_sdg_clean.py)           *)
(* Time is counted in whole ticks; a wait of w seconds is w ticks.         *)
(***************************************************************************)
EXTENDS Integers, Sequences, FiniteSets, TLC

VARIABLES
    \* ---- FetchHandler: the object's fields and the locals of get() ----
    config,              \* self.config (a FetchHandlerConfig)
    _last_request_time,  \* self._last_request_time
    clock,               \* time.time()
    fh_pc,               \* position of get(): idle, loop, request, handle, returned, raised
    attempt,             \* local attempt
    last_exception,      \* local last_exception
    context,             \* parameter context
    response,            \* what requests.get gave on the current attempt
    fh_outcome,          \* what get() returned or raised
    \* ---- observations of the current get() call and of the session ----
    calls,               \* get() calls started on this handler
    requests,            \* HTTP requests issued by the current call
    sleeps,              \* the sleeps of the current call
    last_failure,        \* the failure of the most recent attempt of the call
    history,             \* what the session's earlier attempts were
    \* ---- UNSDGFetcher.fetch_indicator_data: its inputs and locals ----
    upstream,            \* the UN SDG endpoint: what it answers for each page
    geo_tree,            \* the GeoArea/Tree endpoint: the tree it answers with
    geo_requests,        \* requests sent to the GeoArea/Tree endpoint
    geo_outcome,         \* what the last request to GeoArea/Tree ended in
    sdg_pc,              \* idle, countries, request, process, finish, returned,
                         \* raised, crashed
    parameters,          \* parameters['page'] as the caller passed it
    valid_countries,     \* what _get_country_codes() returned
    dimension_filters,   \* parameter dimension_filters
    page,                \* local page
    retry_count,         \* local retry_count
    data,                \* local data: the body of the last response
    all_data,            \* local all_data
    totalPages,          \* local totalPages
    sdg_result,          \* what fetch_indicator_data returned
    sdg_log,             \* the pages requested, one entry per HTTP request
    sdg_failed,          \* the failed attempts of the call and what ended it
    \* ---- WorldBankClient.fetch_indicator / fetch ----
    wb_upstream,         \* the World Bank endpoint
    wb_pc,               \* idle, fetch, process, returned, raised
    wb_page,             \* local page of fetch_indicator
    out,                 \* local out of fetch_indicator
    attempt_number,      \* tenacity's attempt number of the current fetch call
    payload,             \* local payload
    wb_result,           \* what fetch_indicator returned
    wb_seen,             \* the requests and sleeps of the current fetch call
    \* ---- FetchData.fetch: the configuration and the locals ----
    fd_cfg,              \* cfg: what settings.yaml configures
    fd_pc,               \* idle, bulk, dimensions, worldbank, ndgain, return,
                         \* returned, raised
    main_list,           \* local main_list
    fd_spec,             \* position of the loop over dimension_fetch_specs
    recs,                \* local recs
    fd_ind,              \* position of the loop over wb["indicators"]
    ndgain_indicator_scores,  \* local ndgain_indicator_scores
    fd_result,           \* what fetch returned
    fd_fetched,          \* the sources whose fetch is complete
    fd_failed,           \* the sources whose fetch raised
    dim_log,             \* per dimension fetch, what the fetch of each value ended in
    \* ---- UNSDGCleaner.clean_data: its input and locals ----
    indicator_data,      \* parameter indicator_data
    cl_pc,               \* idle, loop, returned, raised
    cl_record,           \* position of the loop over indicator_data
    rows,                \* local rows
    \* ---- HDRFetcher.fetch_indicator_data: its parameters and locals ----
    indicators_config,   \* parameter indicators_config
    start_year,          \* parameter start_year
    end_year,            \* parameter end_year
    hdr_pc,              \* idle, request, return, returned, raised
    hdr_i,               \* position of the loop over indicators_config
    hdr_year,            \* local year
    all_records,         \* local all_records
    hdr_log              \* the requests issued, each with what it ended in

fh_vars == <<config, _last_request_time, clock, fh_pc, attempt, last_exception,
             context, response, fh_outcome, calls, requests, sleeps,
             last_failure, history>>

sdg_vars == <<upstream, geo_tree, geo_requests, geo_outcome, sdg_pc, parameters, valid_countries, dimension_filters,
              page, retry_count, data, all_data, totalPages, sdg_result, sdg_log,
              sdg_failed>>

wb_vars == <<wb_upstream, wb_pc, wb_page, out, attempt_number, payload, wb_result,
             wb_seen>>

fd_vars == <<fd_cfg, fd_pc, main_list, fd_spec, recs, fd_ind,
             ndgain_indicator_scores, fd_result, fd_fetched, fd_failed, dim_log>>

cl_vars == <<indicator_data, cl_pc, cl_record, rows>>

hdr_vars == <<indicators_config, start_year, end_year, hdr_pc, hdr_i, hdr_year,
              all_records, hdr_log>>

vars == <<fh_vars, sdg_vars, wb_vars, fd_vars, cl_vars, hdr_vars>>

\* ------------------------------------------------------------------ bounds
MaxRetriesBound == 2     \* max_retries ranges over 0..MaxRetriesBound
MaxCalls == 2            \* get() calls per session
MaxGap == 2              \* ticks the caller may let pass between two calls
Epoch == 10              \* time.time() when the session starts

Min(a, b) == IF a < b THEN a ELSE b

RECURSIVE Pow(_, _)
Pow(b, e) == IF e <= 0 THEN 1 ELSE b * Pow(b, e - 1)

\* --------------------------------------------------------- FetchHandlerConfig
\* retry_on_status default, fetch_handler.py:43
retry_on_status == {429, 500, 502, 503, 504}

FetchHandlerConfig ==
    [max_retries : 0..MaxRetriesBound,
     initial_backoff : {1, 2},
     max_backoff : {3},
     backoff_multiplier : {1, 2},
     delay_between_requests : {0, 2},
     retry_on_status : {retry_on_status}]

\* ------------------------------------------------------- requests' outcomes
\* The HTTP statuses an endpoint may answer with.
Statuses == {200, 404, 429, 503}

\* The ticks one HTTP round trip may take.
Durations == {1}

\* The exceptions requests.get may raise (requests.exceptions).
RaisedByGet == {"ReadTimeout", "ConnectTimeout", "ConnectionError", "TooManyRedirects"}

\* isinstance(e, cls) for the classes named in the except clauses.
IsInstance(type, cls) ==
    CASE cls = "Timeout" -> type \in {"ReadTimeout", "ConnectTimeout"}
      [] cls = "ConnectionError" -> type \in {"ConnectionError", "ConnectTimeout"}
      [] cls = "HTTPError" -> type = "HTTPError"
      [] cls = "RequestException" ->
             type \in RaisedByGet \cup {"HTTPError", "RequestException"}
      [] OTHER -> FALSE

\* An exception object: its class, the attempt that raised it, the HTTP status
\* it carries (0: none) and the context label in its message ("": none).
Exc(type, n, status, ctx) ==
    [type |-> type, attempt |-> n, status |-> status, context |-> ctx]

None == Exc("None", 0, 0, "")

\* What requests.get gives: a response with a status, or a raised exception.
Resp(status) == [kind |-> "response", status |-> status, exc |-> None]
Raised(e) == [kind |-> "raised", status |-> 0, exc |-> e]
NoResponse == [kind |-> "none", status |-> 0, exc |-> None]

Contexts == {"", "page 1/2"}

NoSleeps == [pace |-> 0, pace_before |-> 0, since_response |-> -1,
             since_success |-> -1, backoff |-> 0, backoff_after |-> 0, wait |-> 0]

NoHistory == [response_at |-> -1, success_at |-> -1, only_retryable |-> TRUE]

\* ------------------------------------------------------------- FetchHandler
\* _backoff with the cap forgotten.
_backoff_uncapped(cfg, n) ==
    cfg.initial_backoff * Pow(cfg.backoff_multiplier, n - 1)

\* FetchHandler._backoff
_backoff(cfg, n) ==
    LET wait == cfg.initial_backoff * Pow(cfg.backoff_multiplier, n - 1)
    IN  Min(wait, cfg.max_backoff)

\* The loop test off by one: while attempt <= cfg.max_retries
LoopTest_inclusive(cfg, n) == n <= cfg.max_retries

\* The loop test of get(): while attempt < cfg.max_retries
LoopTest(cfg, n) == n < cfg.max_retries

\* The pacing without its test of attempt == 0.
Pacing_every_attempt(cfg, n, t, last) ==
    IF cfg.delay_between_requests > 0
    THEN LET elapsed == t - last
         IN  IF elapsed < cfg.delay_between_requests
             THEN cfg.delay_between_requests - elapsed
             ELSE 0
    ELSE 0

\* The pacing of get(): the sleep before the request, 0 when there is none.
Pacing(cfg, n, t, last) ==
    IF n = 0 /\ cfg.delay_between_requests > 0
    THEN LET elapsed == t - last
         IN  IF elapsed < cfg.delay_between_requests
             THEN cfg.delay_between_requests - elapsed
             ELSE 0
    ELSE 0

\* The except clauses with the RequestException clause written first.
ExceptClause_base_first(type) ==
    CASE IsInstance(type, "RequestException") -> "RequestException"
      [] IsInstance(type, "Timeout") -> "Timeout"
      [] IsInstance(type, "ConnectionError") -> "ConnectionError"
      [] IsInstance(type, "HTTPError") -> "HTTPError"
      [] OTHER -> "uncaught"

\* The first except clause of get() that catches an exception of class type.
ExceptClause(type) ==
    CASE IsInstance(type, "Timeout") -> "Timeout"
      [] IsInstance(type, "ConnectionError") -> "ConnectionError"
      [] IsInstance(type, "HTTPError") -> "HTTPError"
      [] IsInstance(type, "RequestException") -> "RequestException"
      [] OTHER -> "uncaught"

\* response.raise_for_status(): the statuses it raises HTTPError for.
RaisesForStatus(status) == status >= 400 /\ status < 600

\* last_exception after an attempt that ended in the retrying branch.
LastExceptionAfter(resp, prev) ==
    IF resp.kind = "raised" THEN resp.exc ELSE prev

\* What get() raises once the loop is left with the retries exhausted.
Exhausted(cfg, last, ctx) ==
    IF last # None THEN last ELSE Exc("RequestException", 0, 0, ctx)

FhInit ==
    /\ config \in FetchHandlerConfig
    /\ _last_request_time = 0
    /\ clock = Epoch
    /\ fh_pc = "idle"
    /\ attempt = 0
    /\ last_exception = None
    /\ context = ""
    /\ response = NoResponse
    /\ fh_outcome = NoResponse
    /\ calls = 0
    /\ requests = 0
    /\ sleeps = NoSleeps
    /\ last_failure = None
    /\ history = NoHistory

\* get() is entered: attempt = 0, last_exception = None.
FhCall ==
    /\ fh_pc \in {"idle", "returned", "raised"}
    /\ calls < MaxCalls
    /\ \E gap \in 0..MaxGap : clock' = clock + gap
    /\ \E ctx \in Contexts : context' = ctx
    /\ calls' = calls + 1
    /\ attempt' = 0
    /\ last_exception' = None
    /\ response' = NoResponse
    /\ fh_outcome' = NoResponse
    /\ requests' = 0
    /\ sleeps' = NoSleeps
    /\ last_failure' = None
    /\ history' = [history EXCEPT !.only_retryable = TRUE]
    /\ fh_pc' = "loop"
    /\ UNCHANGED <<config, _last_request_time>>
    /\ UNCHANGED <<sdg_vars, wb_vars, fd_vars, cl_vars, hdr_vars>>

\* The loop head taking the timestamp after its pacing sleep.
FhLoop_stamps_after_pacing ==
    /\ fh_pc = "loop"
    /\ LoopTest(config, attempt)
    /\ LET wait == Pacing(config, attempt, clock, _last_request_time)
       IN  /\ clock' = clock + wait
           /\ _last_request_time' = IF wait > 0 THEN clock + wait
                                    ELSE _last_request_time
           /\ sleeps' = IF wait > 0
                        THEN [sleeps EXCEPT !.pace = @ + 1,
                                            !.pace_before = attempt + 1]
                        ELSE sleeps
    /\ attempt' = attempt + 1
    /\ fh_pc' = "request"
    /\ UNCHANGED <<config, last_exception, context, response,
                   fh_outcome, calls, requests, last_failure, history>>
    /\ UNCHANGED <<sdg_vars, wb_vars, fd_vars, cl_vars, hdr_vars>>

\* The loop test holds: the pacing sleep, then attempt += 1.
FhLoop ==
    /\ fh_pc = "loop"
    /\ LoopTest(config, attempt)
    /\ LET wait == Pacing(config, attempt, clock, _last_request_time)
       IN  /\ clock' = clock + wait
           /\ sleeps' = IF wait > 0
                        THEN [sleeps EXCEPT
                                !.pace = @ + 1,
                                !.pace_before = attempt + 1,
                                !.since_response =
                                    IF history.response_at < 0 THEN -1
                                    ELSE clock - history.response_at,
                                !.since_success =
                                    IF history.success_at < 0 THEN -1
                                    ELSE clock - history.success_at]
                        ELSE sleeps
    /\ attempt' = attempt + 1
    /\ fh_pc' = "request"
    /\ UNCHANGED <<config, _last_request_time, last_exception, context, response,
                   fh_outcome, calls, requests, last_failure, history>>
    /\ UNCHANGED <<sdg_vars, wb_vars, fd_vars, cl_vars, hdr_vars>>

\* requests.get(url, ...): a response arrives and the timestamp is taken, or
\* requests.get raises.
FhRequest ==
    /\ fh_pc = "request"
    /\ \E dur \in Durations :
         /\ clock' = clock + dur
         /\ \/ \E s \in Statuses :
                 /\ response' = Resp(s)
                 /\ _last_request_time' = clock + dur
                 /\ history' = [history EXCEPT
                        !.response_at = clock + dur,
                        !.only_retryable = @ /\ s \in config.retry_on_status]
            \/ \E e \in RaisedByGet :
                 /\ response' = Raised(Exc(e, attempt, 0, ""))
                 /\ history' = [history EXCEPT !.only_retryable = FALSE]
                 /\ UNCHANGED _last_request_time
    /\ requests' = requests + 1
    /\ fh_pc' = "handle"
    /\ UNCHANGED <<config, attempt, last_exception, context, fh_outcome, calls,
                   sleeps, last_failure>>
    /\ UNCHANGED <<sdg_vars, wb_vars, fd_vars, cl_vars, hdr_vars>>

\* The rest of the try statement: the status checks and the except clauses.
FhHandle ==
    /\ fh_pc = "handle"
    /\ LET raised == IF response.kind = "raised" THEN response
                     ELSE IF response.status \notin config.retry_on_status
                             /\ RaisesForStatus(response.status)
                          THEN Raised(Exc("HTTPError", attempt, response.status, ""))
                          ELSE NoResponse
           retry == \/ response.kind = "response" /\ response.status \in config.retry_on_status
                    \/ raised.kind = "raised"
                       /\ ExceptClause(raised.exc.type)
                            \in {"Timeout", "ConnectionError", "RequestException"}
           wait == _backoff(config, attempt)
       IN  IF retry
           THEN /\ last_exception' = LastExceptionAfter(raised, last_exception)
                /\ last_failure' = IF raised.kind = "raised" THEN raised.exc
                                   ELSE Exc("status", attempt, response.status, "")
                /\ clock' = clock + wait
                /\ sleeps' = [sleeps EXCEPT !.backoff = @ + 1,
                                            !.backoff_after = attempt,
                                            !.wait = wait]
                /\ fh_pc' = "loop"
                /\ UNCHANGED <<fh_outcome, history>>
           ELSE IF raised.kind = "raised"
           THEN /\ fh_outcome' = raised
                /\ last_failure' = raised.exc
                /\ fh_pc' = "raised"
                /\ UNCHANGED <<last_exception, clock, sleeps, history>>
           ELSE /\ fh_outcome' = response
                /\ history' = [history EXCEPT !.success_at = history.response_at]
                /\ fh_pc' = "returned"
                /\ UNCHANGED <<last_exception, last_failure, clock, sleeps>>
    /\ UNCHANGED <<config, _last_request_time, attempt, context, response, calls,
                   requests>>
    /\ UNCHANGED <<sdg_vars, wb_vars, fd_vars, cl_vars, hdr_vars>>

\* The loop test fails: the retries are exhausted.
FhExhausted ==
    /\ fh_pc = "loop"
    /\ ~LoopTest(config, attempt)
    /\ fh_outcome' = Raised(Exhausted(config, last_exception, context))
    /\ fh_pc' = "raised"
    /\ UNCHANGED <<config, _last_request_time, clock, attempt, last_exception,
                   context, response, calls, requests, sleeps, last_failure, history>>
    /\ UNCHANGED <<sdg_vars, wb_vars, fd_vars, cl_vars, hdr_vars>>

\* ------------------------------------------------- records of the UN SDG API
\* A JSON object is a sequence of entries in key order (a Python dict); a JSON
\* string is a sequence of characters; a JSON number is a natural number.
Str(s) == [kind |-> "str", s |-> s]
Num(n) == [kind |-> "int", n |-> n]
Dict(d) == [kind |-> "dict", d |-> d]
Entry(k, v) == [k |-> k, v |-> v]

HasKey(r, k) == \E i \in DOMAIN r : r[i].k = k

\* dict.get(k, default)
Get(r, k, default) ==
    IF HasKey(r, k) THEN r[CHOOSE i \in DOMAIN r : r[i].k = k].v ELSE default

\* d[k] = v: an existing key keeps its place, a new key goes last.
Put(r, k, v) ==
    IF HasKey(r, k)
    THEN [i \in DOMAIN r |-> IF r[i].k = k THEN Entry(k, v) ELSE r[i]]
    ELSE Append(r, Entry(k, v))

\* An update that leaves the keys the dict already has as they are.
RECURSIVE Update_keeps_existing(_, _)
Update_keeps_existing(r, d) ==
    IF d = <<>> THEN r
    ELSE Update_keeps_existing(IF HasKey(r, Head(d).k) THEN r
                               ELSE Put(r, Head(d).k, Head(d).v),
                               Tail(d))

\* dict.update(d)
RECURSIVE Update(_, _)
Update(r, d) ==
    IF d = <<>> THEN r ELSE Update(Put(r, Head(d).k, Head(d).v), Tail(d))

\* {k: v for k, v in record.items() if k != key}
Without(r, key) ==
    LET Keep(e) == e.k # key IN SelectSeq(r, Keep)

\* The flattening of one record in fetch_indicator_data.
Flatten(record) ==
    LET flat_rec == Without(record, "dimensions")
        dims == Get(record, "dimensions", Dict(<<>>))
    IN  IF dims.kind = "dict" /\ dims.d # <<>>
        THEN Update(flat_rec, dims.d)
        ELSE flat_rec

\* The flattening loop over all_data['data'].
RECURSIVE FlattenAll(_)
FlattenAll(records) ==
    IF records = <<>> THEN <<>>
    ELSE <<Flatten(Head(records))>> \o FlattenAll(Tail(records))

\* The decimal digits of a natural number, as str(n) writes them.
RECURSIVE Decimal(_)
Decimal(n) ==
    LET digit == <<"0", "1", "2", "3", "4", "5", "6", "7", "8", "9">>
    IN  IF n < 10 THEN <<digit[n + 1]>>
        ELSE Decimal(n \div 10) \o <<digit[(n % 10) + 1]>>

\* str(v) of a value.
RECURSIVE Repr(_)
RECURSIVE ReprItems(_)
ToStr(v) == IF v.kind = "str" THEN v.s ELSE Repr(v)
\* repr(v): a string in quotes, a number in digits, a dict in braces (a key
\* is one token).
Repr(v) ==
    IF v.kind = "str" THEN <<"'">> \o v.s \o <<"'">>
    ELSE IF v.kind = "int" THEN Decimal(v.n)
    ELSE <<"{">> \o ReprItems(v.d) \o <<"}">>
ReprItems(d) ==
    IF d = <<>> THEN <<>>
    ELSE <<"'", Head(d).k, "'", ":", " ">> \o Repr(Head(d).v)
         \o (IF Tail(d) = <<>> THEN <<>> ELSE <<",", " ">> \o ReprItems(Tail(d)))

\* str(list(record.values()))
RECURSIVE ReprValues(_)
ReprValues(r) ==
    IF r = <<>> THEN <<>>
    ELSE Repr(Head(r).v)
         \o (IF Tail(r) = <<>> THEN <<>> ELSE <<",", " ">> \o ReprValues(Tail(r)))
StrOfValues(r) == <<"[">> \o ReprValues(r) \o <<"]">>

\* f in s, for strings
IsSubstr(f, s) ==
    \E i \in 0..(Len(s) - Len(f)) : SubSeq(s, i + 1, i + Len(f)) = f

\* The geoAreaCode looked up in the set as it is, without str().
CountryKeeps_without_str(record, countries) ==
    countries # {} =>
        LET geo_code == Get(record, "geoAreaCode", Str(<<>>))
        IN  geo_code.kind = "str" /\ geo_code.s \in countries

\* The membership test applied whatever the set, an empty one included.
CountryKeeps_tests_empty_set(record, countries) ==
    ToStr(Get(record, "geoAreaCode", Str(<<>>))) \in countries

\* The test of the country filter: the record is kept.
CountryKeeps(record, countries) ==
    countries # {} =>
        ToStr(Get(record, "geoAreaCode", Str(<<>>))) \in countries

\* Every filter value required to appear, instead of any one.
DimensionKeeps_all(record, filters) ==
    filters # <<>> =>
        \A i \in DOMAIN filters : IsSubstr(filters[i], StrOfValues(record))

\* The test of the dimension filter: the record is kept.
DimensionKeeps(record, filters) ==
    filters # <<>> =>
        \E i \in DOMAIN filters : IsSubstr(filters[i], StrOfValues(record))

\* The filtering loop over the flattened records.
Filtered(records, countries, filters) ==
    LET Keep(record) == CountryKeeps(record, countries)
                        /\ DimensionKeeps(record, filters)
    IN  SelectSeq(records, Keep)

\* ------------------------------------------------------ the UN SDG endpoint
MaxPages == 3            \* the endpoint holds 1..MaxPages pages

Digits == <<"1", "2", "3", "4", "5", "6", "7", "8", "9">>

\* The i-th record of page p, as the endpoint sends it.
RawRecord(p, i) ==
    <<Entry("id", Str(<<Digits[p], Digits[i]>>)),
      Entry("geoAreaCode", Str(IF i = 1 THEN <<"4">> ELSE <<"9", "0">>)),
      Entry("dimensions",
            IF i = 1 THEN Dict(<<Entry("Sex", Str(<<"F">>))>>)
            ELSE Dict(<<>>))>>

PageRecords(p, size) == [i \in 1..size |-> RawRecord(p, i)]

\* A response body: its keys, its totalPages and its data list.
Body(keys, total, records) ==
    [keys |-> keys, totalPages |-> total, data |-> records]
EmptyBody == Body({}, 0, <<>>)

\* An endpoint: the sizes of its pages, the totalPages its page 1 announces
\* (0: the key is absent) and the totalPages its later pages carry (0: absent).
Upstreams ==
    {[sizes |-> sz, announced |-> a, later |-> l] :
        sz \in UNION {[1..n -> {1, 2}] : n \in 0..MaxPages},
        a \in 0..MaxPages,
        l \in {0, 1}}

MaxRecords == 2          \* records on the page of a one-page endpoint

\* A key the record does not have.
Absent == [kind |-> "absent"]

\* A record of the endpoint with the given values under 'geoAreaCode', 'Sex'
\* and 'dimensions'.
MakeRecord(geo, sex, dims) ==
    (IF geo = Absent THEN <<>> ELSE <<Entry("geoAreaCode", geo)>>)
    \o (IF sex = Absent THEN <<>> ELSE <<Entry("Sex", sex)>>)
    \o (IF dims = Absent THEN <<>> ELSE <<Entry("dimensions", dims)>>)

\* The records an endpoint may send. The geoAreaCode is a string or a number
\* or is missing, and the record has no 'dimensions' or one with a key that
\* may collide with a top-level key; or the 'dimensions' is empty, is not a
\* mapping, has a 'geoAreaCode' of its own, or has a key 'dimensions' again.
RawRecords ==
    {MakeRecord(geo, sex, dims) :
        geo \in {Absent, Str(<<"4">>), Num(4), Str(<<"9", "0">>)},
        sex \in {Absent, Str(<<"M">>)},
        dims \in {Absent, Dict(<<Entry("Sex", Str(<<"F">>))>>)}}
    \cup
    {MakeRecord(Str(<<"4">>), sex, dims) :
        sex \in {Absent, Str(<<"M">>)},
        dims \in {Dict(<<>>),
                  Str(<<"F">>),
                  Dict(<<Entry("geoAreaCode", Str(<<"9", "0">>))>>),
                  Dict(<<Entry("dimensions",
                               Dict(<<Entry("Sex", Str(<<"F">>))>>))>>)}}

\* The endpoints of one page that holds any list of such records.
RecordUpstreams ==
    {[sizes |-> <<Len(rs)>>, announced |-> 1, later |-> 0, records |-> <<rs>>] :
        rs \in UNION {[1..k -> RawRecords] : k \in 0..MaxRecords}}

\* The data list of page p of the endpoint.
RecordsOfPage(up, p) ==
    IF "records" \in DOMAIN up THEN up.records[p]
    ELSE PageRecords(p, up.sizes[p])

\* The body the endpoint answers a request for page p with.
BodyOf(up, p) ==
    IF p \notin DOMAIN up.sizes THEN EmptyBody
    ELSE LET total == IF p = 1 THEN up.announced ELSE up.later
         IN  Body(IF total = 0 THEN {"data"} ELSE {"data", "totalPages"},
                  total, RecordsOfPage(up, p))

\* What one HTTP request of fetch_indicator_data may end in.
SdgOutcomes ==
    {[kind |-> "ok", status |-> 200]}
    \cup {[kind |-> "HTTPError", status |-> s] : s \in {404, 429, 503}}
    \cup {[kind |-> "RequestException", status |-> 0]}

\* ------------------------------------------------ the GeoArea/Tree endpoint
MaxNodes == 4            \* a geo-area tree holds 0..MaxNodes nodes

\* A geo-area tree: its nodes are numbered in document order, parent[i] is
\* the node whose 'children' list holds node i (0: i is a root), type[i] and
\* code[i] are the node's 'type' and 'geoAreaCode' (a JSON number).
IsGeoTree(tree) ==
    \E n \in 0..MaxNodes :
        /\ tree.parent \in [1..n -> 0..n]
        /\ \A i \in 1..n : tree.parent[i] < i
        /\ tree.type \in [1..n -> {"Country", "Region"}]
        /\ tree.code \in [1..n -> {4, 8}]

\* A Region root with one Country child of code 4.
RegionWithCountry ==
    [parent |-> <<0, 1>>, type |-> <<"Region", "Country">>, code |-> <<1, 4>>]

\* node.get('children') of node i (the root list of the tree for i = 0).
Children(tree, i) == {j \in DOMAIN tree.parent : tree.parent[j] = i}

\* What one request to GeoArea/Tree may end in.
GeoOutcomes == {"ok", "HTTPError", "ConnectionError"}

\* ------------------------------------------- UNSDGFetcher._get_country_codes
\* The children of a Country node are skipped.
RECURSIVE _traverse_stops_at_country(_, _)
_traverse_stops_at_country(tree, node) ==
    IF tree.type[node] = "Country"
    THEN {ToStr(Num(tree.code[node]))}
    ELSE UNION {_traverse_stops_at_country(tree, child) :
                    child \in Children(tree, node)}

\* The codes that _traverse(node) adds to country_codes.
RECURSIVE _traverse(_, _)
_traverse(tree, node) ==
    (IF tree.type[node] = "Country" THEN {ToStr(Num(tree.code[node]))} ELSE {})
    \cup UNION {_traverse(tree, child) : child \in Children(tree, node)}

\* A failed request raised to the caller.
_get_country_codes_raises(outcome, tree) ==
    IF outcome = "ok"
    THEN [raised |-> FALSE,
          codes |-> UNION {_traverse(tree, root_node) :
                              root_node \in Children(tree, 0)}]
    ELSE [raised |-> TRUE, codes |-> {}]

\* What _get_country_codes returns: the codes of the traversal, or the empty
\* set when the request or the traversal raised.
_get_country_codes(outcome, tree) ==
    IF outcome = "ok"
    THEN [raised |-> FALSE,
          codes |-> UNION {_traverse(tree, root_node) :
                              root_node \in Children(tree, 0)}]
    ELSE [raised |-> FALSE, codes |-> {}]

\* ------------------------------------------- UNSDGFetcher.fetch_indicator_data
\* max_retries = 3, un_sdg_fetch.py:63
max_retries == 3

Unbound == -1
NoResult == [returned |-> FALSE, data |-> <<>>]
NoFailures == [attempts |-> 0, slept |-> 0, fatal |-> "none", fatal_page |-> 0,
               fatal_status |-> 0, fatal_tries |-> 0]

\* The except clauses of the retry loop after a failed attempt: retry after a
\* sleep, or raise.
AfterFailure(failure, count) ==
    IF failure.kind = "HTTPError" /\ failure.status # 429
    THEN [do |-> "raise", retry_count |-> count, wait |-> 0]
    ELSE IF count + 1 < max_retries
         THEN [do |-> "retry", retry_count |-> count + 1, wait |-> 2 ^ (count + 1)]
         ELSE [do |-> "raise", retry_count |-> count + 1, wait |-> 0]

\* A raise in the retry loop swallowed: the page loop is left as by a break.
RetryLoopExit_breaks(do) == IF do = "retry" THEN "request" ELSE "finish"

\* Where the retry loop goes after a failed attempt: another pass, or the
\* raise leaves fetch_indicator_data.
RetryLoopExit(do) == IF do = "retry" THEN "request" ELSE "raised"

\* The validation of the response with its test forgotten.
IsEmptyBody_never(body) == FALSE

\* not data or len(data) == 0
IsEmptyBody(body) == body.keys = {}

\* data.get('totalPages', 1)
TotalPagesOf(body) == IF "totalPages" \in body.keys THEN body.totalPages ELSE 1

\* The test that ends the page loop, a page early.
LastPage_a_page_early(p, total) == p + 1 >= total

\* The test that ends the page loop.
LastPage(p, total) == p >= total

SdgIdle ==
    /\ sdg_pc = "idle"
    /\ geo_requests = 0
    /\ geo_outcome = "none"
    /\ parameters = [page |-> 1]
    /\ valid_countries = {}
    /\ dimension_filters = <<>>
    /\ page = 1
    /\ retry_count = 0
    /\ data = EmptyBody
    /\ all_data = EmptyBody
    /\ totalPages = Unbound
    /\ sdg_result = NoResult
    /\ sdg_log = <<>>
    /\ sdg_failed = NoFailures

SdgInit == upstream \in Upstreams /\ geo_tree = RegionWithCountry /\ SdgIdle

\* The dimension_filters a caller passes: None, or a list of strings.
FilterLists == {<<>>, <<(<<"F">>)>>, <<(<<"M">>), (<<"F">>)>>}

\* fetch_indicator_data is entered on a fresh fetcher: the parameters are
\* bound and the call of _get_country_codes() is next. The loop variables,
\* which the code sets after that call, are set here.
SdgCall ==
    /\ sdg_pc = "idle"
    /\ \E start \in {1, 2} :
         /\ parameters' = [page |-> start]
         /\ page' = start
    /\ valid_countries' = {}
    /\ dimension_filters' \in FilterLists
    /\ all_data' = EmptyBody
    /\ retry_count' = 0
    /\ sdg_pc' = "countries"
    /\ UNCHANGED <<upstream, data, totalPages, sdg_result, sdg_log, sdg_failed>>
    /\ UNCHANGED <<geo_tree, geo_requests, geo_outcome>>
    /\ UNCHANGED <<fh_vars, wb_vars, fd_vars, cl_vars, hdr_vars>>

MaxFetches == 2          \* fetch calls on one UNSDGFetcher

\* fetch_indicator_data is entered again on the same fetcher, after an
\* earlier call returned or raised: its locals are fresh, the fetcher keeps
\* nothing from the earlier call.
SdgCallAgain ==
    /\ sdg_pc \in {"returned", "raised", "crashed"}
    /\ geo_requests < MaxFetches
    /\ \E start \in {1, 2} :
         /\ parameters' = [page |-> start]
         /\ page' = start
    /\ valid_countries' = {}
    /\ dimension_filters' \in FilterLists
    /\ all_data' = EmptyBody
    /\ retry_count' = 0
    /\ data' = EmptyBody
    /\ totalPages' = Unbound
    /\ sdg_result' = NoResult
    /\ sdg_log' = <<>>
    /\ sdg_failed' = NoFailures
    /\ sdg_pc' = "countries"
    /\ UNCHANGED <<upstream, geo_tree, geo_requests, geo_outcome>>
    /\ UNCHANGED <<fh_vars, wb_vars, fd_vars, cl_vars, hdr_vars>>

\* valid_countries = self._get_country_codes(): one request to GeoArea/Tree
\* and the traversal of its answer.
GetCountryCodes ==
    /\ sdg_pc = "countries"
    /\ geo_requests' = geo_requests + 1
    /\ \E outcome \in GeoOutcomes :
         LET got == _get_country_codes(outcome, geo_tree)
         IN  /\ geo_outcome' = outcome
             /\ valid_countries' = got.codes
             /\ sdg_pc' = IF got.raised THEN "raised" ELSE "request"
    /\ UNCHANGED <<upstream, geo_tree, parameters, dimension_filters, page,
                   retry_count, data, all_data, totalPages, sdg_result, sdg_log,
                   sdg_failed>>
    /\ UNCHANGED <<fh_vars, wb_vars, fd_vars, cl_vars, hdr_vars>>

\* One pass of the retry loop: requests.get, raise_for_status, response.json().
SdgRequest ==
    /\ sdg_pc = "request"
    /\ sdg_log' = Append(sdg_log, page)
    /\ \E o \in SdgOutcomes :
         IF o.kind = "ok"
         THEN /\ data' = BodyOf(upstream, page)
              /\ sdg_pc' = "process"
              /\ UNCHANGED <<retry_count, sdg_failed>>
         ELSE LET next == AfterFailure(o, retry_count)
              IN  /\ retry_count' = next.retry_count
                  /\ sdg_pc' = RetryLoopExit(next.do)
                  /\ sdg_failed' =
                        IF next.do = "retry"
                        THEN [sdg_failed EXCEPT !.attempts = @ + 1,
                                                !.slept = @ + next.wait]
                        ELSE [sdg_failed EXCEPT !.attempts = @ + 1,
                                                !.fatal = o.kind,
                                                !.fatal_page = page,
                                                !.fatal_status = o.status,
                                                !.fatal_tries = retry_count + 1]
                  /\ UNCHANGED data
    /\ UNCHANGED <<upstream, parameters, valid_countries, dimension_filters, page,
                   all_data, totalPages, sdg_result>>
    /\ UNCHANGED <<geo_tree, geo_requests, geo_outcome>>
    /\ UNCHANGED <<fh_vars, wb_vars, fd_vars, cl_vars, hdr_vars>>

\* The rest of the pass of the page loop, once the response is in data.
SdgProcess ==
    /\ sdg_pc = "process"
    /\ IF IsEmptyBody(data)
       THEN /\ sdg_pc' = "finish"
            /\ UNCHANGED <<all_data, totalPages, page, retry_count>>
       ELSE IF page <= 1
       THEN /\ all_data' = data
            /\ totalPages' = TotalPagesOf(data)
            /\ IF LastPage(page, TotalPagesOf(data))
               THEN sdg_pc' = "finish" /\ UNCHANGED <<page, retry_count>>
               ELSE sdg_pc' = "request" /\ page' = page + 1 /\ retry_count' = 0
       ELSE IF "data" \notin all_data.keys \/ totalPages = Unbound
       THEN \* all_data['data'] raises KeyError, totalPages is not bound
            /\ sdg_pc' = "crashed"
            /\ UNCHANGED <<all_data, totalPages, page, retry_count>>
       ELSE /\ all_data' = [all_data EXCEPT !.data = @ \o data.data]
            /\ UNCHANGED totalPages
            /\ IF LastPage(page, totalPages)
               THEN sdg_pc' = "finish" /\ UNCHANGED <<page, retry_count>>
               ELSE sdg_pc' = "request" /\ page' = page + 1 /\ retry_count' = 0
    /\ UNCHANGED <<upstream, parameters, valid_countries, dimension_filters, data,
                   sdg_result, sdg_log, sdg_failed>>
    /\ UNCHANGED <<geo_tree, geo_requests, geo_outcome>>
    /\ UNCHANGED <<fh_vars, wb_vars, fd_vars, cl_vars, hdr_vars>>

\* After the page loop: flatten, filter, return all_data.
SdgFinish ==
    /\ sdg_pc = "finish"
    /\ LET flat_records == FlattenAll(all_data.data)
           filtered_data == Filtered(flat_records, valid_countries, dimension_filters)
       IN  /\ all_data' = [all_data EXCEPT !.data = filtered_data,
                                           !.keys = @ \cup {"data"}]
           /\ sdg_result' = [returned |-> TRUE, data |-> filtered_data]
    /\ sdg_pc' = "returned"
    /\ UNCHANGED <<upstream, parameters, valid_countries, dimension_filters, page,
                   retry_count, data, totalPages, sdg_log, sdg_failed>>
    /\ UNCHANGED <<geo_tree, geo_requests, geo_outcome>>
    /\ UNCHANGED <<fh_vars, wb_vars, fd_vars, cl_vars, hdr_vars>>

\* ------------------------------------------------- the World Bank endpoint
\* A payload: [metadata, data] when well formed; metadata.pages (0: absent).
Payload(valid, pages, records) == [valid |-> valid, pages |-> pages, data |-> records]
NoPayload == Payload(FALSE, 0, <<>>)

\* An endpoint: the pages its metadata announces (0: the key is absent) and the
\* page it answers with a one-element error payload (0: none).
WbUpstreams == [pages : 0..MaxPages, invalid_at : 0..MaxPages]

WbPayloadOf(up, p) ==
    IF p = up.invalid_at THEN NoPayload
    ELSE Payload(TRUE, up.pages, <<[page |-> p, row |-> 1], [page |-> p, row |-> 2]>>)

\* What one HTTP request of WorldBankClient.fetch may end in.
WbOutcomes ==
    {[kind |-> "ok", status |-> 200]}
    \cup {[kind |-> "HTTPError", status |-> s] : s \in {404, 429, 503}}
    \cup {[kind |-> "Timeout", status |-> 0]}

\* --------------------------------------------------- WorldBankClient.fetch
\* stop_after_attempt(4), world_bank_fetch.py:31
stop_after_attempt == 4

\* wait_exponential(multiplier=0.5, max=8) in ticks of half a second.
wait_exponential(n) == Min(1 * (2 ^ (n - 1)), 16)

\* The @retry decorator of fetch after an attempt that raised: it names no
\* exception class, so whatever fetch raises is retried until the stop.
RetryDecision(failure, n) ==
    IF n >= stop_after_attempt
    THEN [do |-> "raise", wait |-> 0]
    ELSE [do |-> "retry", wait |-> wait_exponential(n)]

NotSeen == [requests |-> 0, slept |-> 0, first |-> 0, last |-> 0]

WbIdle ==
    /\ wb_pc = "idle"
    /\ wb_page = 1
    /\ out = <<>>
    /\ attempt_number = 1
    /\ payload = NoPayload
    /\ wb_result = [returned |-> FALSE, data |-> <<>>]
    /\ wb_seen = NotSeen

WbInit == wb_upstream \in WbUpstreams /\ WbIdle

\* fetch_indicator is entered: page, out = 1, [] and fetch is called.
WbCall ==
    /\ wb_pc = "idle"
    /\ wb_page' = 1
    /\ out' = <<>>
    /\ attempt_number' = 1
    /\ wb_seen' = NotSeen
    /\ wb_pc' = "fetch"
    /\ UNCHANGED <<wb_upstream, payload, wb_result>>
    /\ UNCHANGED <<fh_vars, sdg_vars, fd_vars, cl_vars, hdr_vars>>

\* One attempt of fetch under the decorator: session.get, raise_for_status.
WbFetch ==
    /\ wb_pc = "fetch"
    /\ \E o \in WbOutcomes :
         LET seen == [wb_seen EXCEPT
                        !.requests = @ + 1,
                        !.first = IF wb_seen.requests = 0 THEN o.status ELSE @,
                        !.last = o.status]
         IN  IF o.kind = "ok"
             THEN /\ payload' = WbPayloadOf(wb_upstream, wb_page)
                  /\ wb_seen' = seen
                  /\ wb_pc' = "process"
                  /\ UNCHANGED attempt_number
             ELSE LET next == RetryDecision(o, attempt_number)
                  IN  /\ wb_seen' = [seen EXCEPT !.slept = @ + next.wait]
                      /\ IF next.do = "retry"
                         THEN wb_pc' = "fetch" /\ attempt_number' = attempt_number + 1
                         ELSE wb_pc' = "raised" /\ UNCHANGED attempt_number
                      /\ UNCHANGED payload
    /\ UNCHANGED <<wb_upstream, wb_page, out, wb_result>>
    /\ UNCHANGED <<fh_vars, sdg_vars, fd_vars, cl_vars, hdr_vars>>

\* The rest of the pass of fetch_indicator's loop, once the payload is in.
WbProcess ==
    /\ wb_pc = "process"
    /\ IF ~payload.valid
       THEN /\ wb_result' = [returned |-> TRUE, data |-> out]
            /\ wb_pc' = "returned"
            /\ UNCHANGED <<out, wb_page, attempt_number, wb_seen>>
       ELSE LET pages == IF payload.pages = 0 THEN 1 ELSE payload.pages
            IN  /\ out' = out \o payload.data
                /\ IF wb_page >= pages
                   THEN /\ wb_result' = [returned |-> TRUE, data |-> out \o payload.data]
                        /\ wb_pc' = "returned"
                        /\ UNCHANGED <<wb_page, attempt_number, wb_seen>>
                   ELSE /\ wb_page' = wb_page + 1
                        /\ attempt_number' = 1
                        /\ wb_seen' = NotSeen
                        /\ wb_pc' = "fetch"
                        /\ UNCHANGED wb_result
    /\ UNCHANGED <<wb_upstream, payload>>
    /\ UNCHANGED <<fh_vars, sdg_vars, fd_vars, cl_vars, hdr_vars>>

\* --------------------------------------------------------- FetchData.fetch
MaxSpecs == 1            \* indicators configured to be fetched per dimension
MaxValues == 3           \* dimension_values of such an indicator
MaxIndicators == 2       \* World Bank indicators configured

Sources == {"unsdg", "worldbank", "ndgain"}

\* What settings.yaml and unsdg_indicator_classes.yaml configure: whether
\* there are bulk indicators, the number of dimension_values of each
\* dimension fetch spec, and the number of World Bank indicators.
FdConfigs ==
    [bulk : BOOLEAN,
     specs : UNION {[1..n -> 1..MaxValues] : n \in 0..MaxSpecs},
     indicators : 1..MaxIndicators]

\* The n records a fetch got for one item (an indicator) and dimension value.
RecordsOf(source, item, value, n) ==
    [k \in 1..n |-> [source |-> source, item |-> item, value |-> value, n |-> k]]

\* What a fetch call of a client ends in: it raises (-1) or it returns so
\* many records.
FetchOutcomes == {-1, 1, 2}

\* What a fetch of one source ended in, on the way out of FetchData.fetch.
NoFetchResult == [returned |-> FALSE, unsdg |-> <<>>, worldbank |-> <<>>, ndgain |-> <<>>]

\* The iteration over dimension_values left at the first value that fails.
RECURSIVE fetch_indicator_by_dimension_aborts(_, _, _)
fetch_indicator_by_dimension_aborts(item, value, outcomes) ==
    IF value > Len(outcomes) \/ outcomes[value] = -1 THEN <<>>
    ELSE RecordsOf("unsdg", item, value, outcomes[value])
         \o fetch_indicator_by_dimension_aborts(item, value + 1, outcomes)

\* UNSDGFetcher.fetch_indicator_by_dimension from the dimension value `value`
\* on: one paginated fetch per value, a value that fails is logged and
\* skipped, the records of the others are concatenated.
RECURSIVE fetch_indicator_by_dimension(_, _, _)
fetch_indicator_by_dimension(item, value, outcomes) ==
    IF value > Len(outcomes) THEN <<>>
    ELSE (IF outcomes[value] = -1 THEN <<>>
          ELSE RecordsOf("unsdg", item, value, outcomes[value]))
         \o fetch_indicator_by_dimension(item, value + 1, outcomes)

FdIdle ==
    /\ fd_pc = "idle"
    /\ main_list = <<>>
    /\ fd_spec = 1
    /\ recs = <<>>
    /\ fd_ind = 1
    /\ ndgain_indicator_scores = <<>>
    /\ fd_result = NoFetchResult
    /\ fd_fetched = {}
    /\ fd_failed = {}
    /\ dim_log = <<>>

FdInit == fd_cfg \in FdConfigs /\ FdIdle

\* fetch is entered: the configuration is loaded, the UN SDG client is
\* created and main_list is empty.
FdStart ==
    /\ fd_pc = "idle"
    /\ fd_pc' = "bulk"
    /\ main_list' = <<>>
    /\ UNCHANGED <<fd_cfg, fd_spec, recs, fd_ind, ndgain_indicator_scores,
                   fd_result, fd_fetched, fd_failed, dim_log>>
    /\ UNCHANGED <<fh_vars, sdg_vars, wb_vars, cl_vars, hdr_vars>>

\* if bulk_indicators: the one call of fetch_indicator_data. What it raises
\* leaves fetch: no statement of fetch is inside a try.
FdBulk ==
    /\ fd_pc = "bulk"
    /\ IF fd_cfg.bulk
       THEN \E o \in FetchOutcomes :
              IF o = -1
              THEN /\ fd_pc' = "raised"
                   /\ fd_failed' = fd_failed \cup {"unsdg"}
                   /\ UNCHANGED main_list
              ELSE /\ fd_pc' = "dimensions"
                   /\ main_list' = RecordsOf("unsdg", 0, 0, o)
                   /\ UNCHANGED fd_failed
       ELSE /\ fd_pc' = "dimensions"
            /\ UNCHANGED <<main_list, fd_failed>>
    /\ UNCHANGED <<fd_cfg, fd_spec, recs, fd_ind, ndgain_indicator_scores,
                   fd_result, fd_fetched, dim_log>>
    /\ UNCHANGED <<fh_vars, sdg_vars, wb_vars, cl_vars, hdr_vars>>

\* One pass of the loop over dimension_fetch_specs: the call of
\* fetch_indicator_by_dimension and main_list = main_list + records.
FdDimension ==
    /\ fd_pc = "dimensions"
    /\ fd_spec <= Len(fd_cfg.specs)
    /\ \E outcomes \in [1..fd_cfg.specs[fd_spec] -> FetchOutcomes] :
         /\ main_list' = main_list \o fetch_indicator_by_dimension(fd_spec, 1, outcomes)
         /\ dim_log' = Append(dim_log, outcomes)
    /\ fd_spec' = fd_spec + 1
    /\ UNCHANGED <<fd_cfg, fd_pc, recs, fd_ind, ndgain_indicator_scores,
                   fd_result, fd_fetched, fd_failed>>
    /\ UNCHANGED <<fh_vars, sdg_vars, wb_vars, cl_vars, hdr_vars>>

\* After that loop: unsdg_indicator_list = main_list, the raw data is saved,
\* the World Bank client is created and recs is empty.
FdUnsdgDone ==
    /\ fd_pc = "dimensions"
    /\ fd_spec > Len(fd_cfg.specs)
    /\ fd_fetched' = fd_fetched \cup {"unsdg"}
    /\ recs' = <<>>
    /\ fd_pc' = "worldbank"
    /\ UNCHANGED <<fd_cfg, main_list, fd_spec, fd_ind, ndgain_indicator_scores,
                   fd_result, fd_failed, dim_log>>
    /\ UNCHANGED <<fh_vars, sdg_vars, wb_vars, cl_vars, hdr_vars>>

\* One pass of the loop over wb["indicators"]: recs.extend(the fetch).
FdWorldBank ==
    /\ fd_pc = "worldbank"
    /\ fd_ind <= fd_cfg.indicators
    /\ \E o \in FetchOutcomes :
         IF o = -1
         THEN /\ fd_pc' = "raised"
              /\ fd_failed' = fd_failed \cup {"worldbank"}
              /\ UNCHANGED <<recs, fd_ind>>
         ELSE /\ recs' = recs \o RecordsOf("worldbank", fd_ind, 0, o)
              /\ fd_ind' = fd_ind + 1
              /\ UNCHANGED <<fd_pc, fd_failed>>
    /\ UNCHANGED <<fd_cfg, main_list, fd_spec, ndgain_indicator_scores,
                   fd_result, fd_fetched, dim_log>>
    /\ UNCHANGED <<fh_vars, sdg_vars, wb_vars, cl_vars, hdr_vars>>

\* After that loop: the raw data is saved and the ND-GAIN client is created.
FdWorldBankDone ==
    /\ fd_pc = "worldbank"
    /\ fd_ind > fd_cfg.indicators
    /\ fd_fetched' = fd_fetched \cup {"worldbank"}
    /\ fd_pc' = "ndgain"
    /\ UNCHANGED <<fd_cfg, main_list, fd_spec, recs, fd_ind,
                   ndgain_indicator_scores, fd_result, fd_failed, dim_log>>
    /\ UNCHANGED <<fh_vars, sdg_vars, wb_vars, cl_vars, hdr_vars>>

\* The one ND-GAIN fetch.
FdNdGain ==
    /\ fd_pc = "ndgain"
    /\ \E o \in FetchOutcomes :
         IF o = -1
         THEN /\ fd_pc' = "raised"
              /\ fd_failed' = fd_failed \cup {"ndgain"}
              /\ UNCHANGED <<ndgain_indicator_scores, fd_fetched>>
         ELSE /\ ndgain_indicator_scores' = RecordsOf("ndgain", 1, 0, o)
              /\ fd_fetched' = fd_fetched \cup {"ndgain"}
              /\ fd_pc' = "return"
              /\ UNCHANGED fd_failed
    /\ UNCHANGED <<fd_cfg, main_list, fd_spec, recs, fd_ind, fd_result, dim_log>>
    /\ UNCHANGED <<fh_vars, sdg_vars, wb_vars, cl_vars, hdr_vars>>

\* return {"unsdg": ..., "worldbank": ..., "ndgain": ...}
FdReturn ==
    /\ fd_pc = "return"
    /\ fd_result' = [returned |-> TRUE, unsdg |-> main_list, worldbank |-> recs,
                     ndgain |-> ndgain_indicator_scores]
    /\ fd_pc' = "returned"
    /\ UNCHANGED <<fd_cfg, main_list, fd_spec, recs, fd_ind,
                   ndgain_indicator_scores, fd_fetched, fd_failed, dim_log>>
    /\ UNCHANGED <<fh_vars, sdg_vars, wb_vars, cl_vars, hdr_vars>>

\* ------------------------------------------------- UNSDGCleaner.clean_data
MaxInput == 2            \* records of indicator_data

\* None, and a JSON array.
NoneValue == [kind |-> "none"]
List(l) == [kind |-> "list", l |-> l]

\* A fetched record with the given values under 'indicator', 'geoAreaName',
\* 'timePeriodStart', 'value' and 'Sex' (a string is one token here).
MakeFetched(indicator, country, year, value, sex) ==
    (IF indicator = Absent THEN <<>> ELSE <<Entry("indicator", indicator)>>)
    \o (IF country = Absent THEN <<>> ELSE <<Entry("geoAreaName", country)>>)
    \o <<Entry("timePeriodStart", year), Entry("value", value)>>
    \o (IF sex = Absent THEN <<>> ELSE <<Entry("Sex", sex)>>)

\* The records clean_data may be given: the 'indicator' list is missing,
\* empty, or holds one or two codes; the value is a number or not numeric.
FetchedRecords ==
    {MakeFetched(indicator, country, year, value, sex) :
        indicator \in {Absent, List(<<>>), List(<<Str(<<"1.1.1">>)>>),
                       List(<<Str(<<"1.2.1">>), Str(<<"1.1.1">>)>>)},
        country \in {Absent, Str(<<"AFG">>)},
        year \in {Num(2019), Num(2020)},
        value \in {Num(5), Str(<<"N/A">>)},
        sex \in {Absent, Str(<<"F">>)}}

\* self.indicator_classes, as unsdg_indicator_classes.yaml may configure it:
\* indicator 1.2.1 has its classes under the dimension 'Sex'.
indicator_classes ==
    [code \in {<<"1.2.1">>} |->
        [dimension_field |-> "Sex", classes |-> [c \in {<<"F">>} |-> Str(<<"Female">>)]]]

\* record.get('indicator', [None])[0]: the first element, or IndexError.
IndicatorOf(record) ==
    LET codes == Get(record, "indicator", List(<<NoneValue>>))
    IN  IF codes.l = <<>> THEN [raised |-> TRUE, value |-> NoneValue]
        ELSE [raised |-> FALSE, value |-> codes.l[1]]

\* The row clean_data builds of a record (of the columns copied with
\* record.get, those of the keys the records here may have).
RowOf(record, indicator) ==
    LET registered == indicator.kind = "str" /\ indicator.s \in DOMAIN indicator_classes
        class_config == indicator_classes[indicator.s]
        class_code == IF registered
                      THEN Get(record, class_config.dimension_field, NoneValue)
                      ELSE NoneValue
        class_name == IF class_code.kind = "str"
                         /\ class_code.s \in DOMAIN class_config.classes
                      THEN class_config.classes[class_code.s]
                      ELSE NoneValue
    IN  [country |-> Get(record, "geoAreaName", NoneValue),
         year |-> Get(record, "timePeriodStart", NoneValue),
         value |-> Get(record, "value", NoneValue),
         indicator |-> indicator,
         sex |-> Get(record, "Sex", NoneValue),
         class_code |-> class_code,
         class_name |-> class_name]

\* str.isdigit() of a string written character by character.
isdigit(s) ==
    /\ s # <<>>
    /\ \A i \in DOMAIN s : s[i] \in {"0", "1", "2", "3", "4", "5", "6", "7", "8", "9"}

\* int(s) of a string of digits.
RECURSIVE IntOf(_)
IntOf(s) ==
    LET digit == <<"0", "1", "2", "3", "4", "5", "6", "7", "8", "9">>
    IN  IF s = <<>> THEN 0
        ELSE 10 * IntOf(SubSeq(s, 1, Len(s) - 1))
             + (CHOOSE d \in 0..9 : digit[d + 1] = s[Len(s)])

\* pd.to_numeric(errors='coerce'): a number stays, a string of digits is
\* parsed, anything else becomes NaN.
ToNumeric(v) ==
    IF v.kind = "int" THEN v
    ELSE IF v.kind = "str" /\ isdigit(v.s) THEN Num(IntOf(v.s))
    ELSE NoneValue

\* The place of a value in the ascending order of its column; None and NaN
\* come last.
RankOf(v) ==
    LET order == <<"1.1.1", "1.2.1", "AFG", "Afghanistan", "CHE", "GII", "HDI",
                   "SP.POP", "Switzerland", "foo">>
    IN  IF v.kind = "int" THEN v.n
        ELSE IF v.kind = "str" THEN CHOOSE i \in DOMAIN order : order[i] = v.s[1]
        ELSE 9999

\* row a comes before row b by country, then indicator, then year.
Before(a, b) ==
    LET ka == <<RankOf(a.country), RankOf(a.indicator), RankOf(a.year)>>
        kb == <<RankOf(b.country), RankOf(b.indicator), RankOf(b.year)>>
    IN  \/ ka[1] < kb[1]
        \/ ka[1] = kb[1] /\ ka[2] < kb[2]
        \/ ka[1] = kb[1] /\ ka[2] = kb[2] /\ ka[3] < kb[3]

\* df.sort_values(['country', 'indicator', 'year']): a stable sort.
RECURSIVE SortValues(_)
SortValues(df) ==
    IF df = <<>> THEN <<>>
    ELSE LET sorted == SortValues(SubSeq(df, 1, Len(df) - 1))
             last == df[Len(df)]
             NotAfter(row) == ~Before(last, row)
             After(row) == Before(last, row)
         IN  SelectSeq(sorted, NotAfter) \o <<last>> \o SelectSeq(sorted, After)

ClIdle ==
    /\ cl_pc = "idle"
    /\ cl_record = 1
    /\ rows = <<>>

ClInit ==
    /\ indicator_data \in UNION {[1..n -> FetchedRecords] : n \in 0..MaxInput}
    /\ ClIdle

\* clean_data is entered: an empty indicator_data returns an empty
\* DataFrame, otherwise rows = [] and the loop starts.
ClCall ==
    /\ cl_pc = "idle"
    /\ cl_pc' = IF indicator_data = <<>> THEN "returned" ELSE "loop"
    /\ rows' = <<>>
    /\ cl_record' = 1
    /\ UNCHANGED indicator_data
    /\ UNCHANGED <<fh_vars, sdg_vars, wb_vars, fd_vars, hdr_vars>>

\* One pass of the loop over indicator_data.
ClRecord ==
    /\ cl_pc = "loop"
    /\ cl_record <= Len(indicator_data)
    /\ LET record == indicator_data[cl_record]
           indicator == IndicatorOf(record)
       IN  IF indicator.raised
           THEN cl_pc' = "raised" /\ UNCHANGED <<rows, cl_record>>
           ELSE /\ rows' = Append(rows, RowOf(record, indicator.value))
                /\ cl_record' = cl_record + 1
                /\ UNCHANGED cl_pc
    /\ UNCHANGED indicator_data
    /\ UNCHANGED <<fh_vars, sdg_vars, wb_vars, fd_vars, hdr_vars>>

\* After the loop: the DataFrame of the rows, its value and year columns
\* made numeric, sorted by country, indicator and year.
ClFinish ==
    /\ cl_pc = "loop"
    /\ cl_record > Len(indicator_data)
    /\ rows' = SortValues([i \in DOMAIN rows |->
                              [rows[i] EXCEPT !.value = ToNumeric(@),
                                              !.year = ToNumeric(@)]])
    /\ cl_pc' = "returned"
    /\ UNCHANGED <<indicator_data, cl_record>>
    /\ UNCHANGED <<fh_vars, sdg_vars, wb_vars, fd_vars, hdr_vars>>

\* ------------------------------------------------------ sorting a DataFrame
\* The lexicographic order of two sort keys: tuples of ranks, one per sort
\* column.
RECURSIVE KeyLess(_, _)
KeyLess(ka, kb) ==
    /\ ka # <<>>
    /\ \/ Head(ka) < Head(kb)
       \/ Head(ka) = Head(kb) /\ KeyLess(Tail(ka), Tail(kb))

\* df.sort_values on several columns, of rows paired with their keys: a
\* stable sort.
RECURSIVE SortKeyed(_)
SortKeyed(df) ==
    IF df = <<>> THEN <<>>
    ELSE LET sorted == SortKeyed(SubSeq(df, 1, Len(df) - 1))
             last == df[Len(df)]
             NotAfter(r) == ~KeyLess(last.key, r.key)
             After(r) == KeyLess(last.key, r.key)
         IN  SelectSeq(sorted, NotAfter) \o <<last>> \o SelectSeq(sorted, After)

RowsOf(keyed) == [i \in DOMAIN keyed |-> keyed[i].row]

\* --------------------------------------------------- NDGAINClean.clean_data
MaxWide == 2             \* records of the wide input

\* A record of a score file as nd_gain_fetch reads it: the columns ISO3 and
\* Name, the year columns 2010 and (unless absent) 2011, a column that is
\* not a year (unless absent) and the 'indicator' the fetcher adds. A key is
\* a string written as its words, a year digit by digit.
WideRecord(iso, c2010, c2011, rank) ==
    <<Entry(<<"ISO3">>, Str(<<iso>>)),
      Entry(<<"Name">>, Str(<<IF iso = "AFG" THEN "Afghanistan" ELSE "Switzerland">>)),
      Entry(<<"2", "0", "1", "0">>, c2010)>>
    \o (IF c2011 = Absent THEN <<>> ELSE <<Entry(<<"2", "0", "1", "1">>, c2011)>>)
    \o (IF rank = Absent THEN <<>> ELSE <<Entry(<<"Rank">>, rank)>>)
    \o <<Entry(<<"indicator">>, Str(<<"foo">>))>>

\* The cells are numbers, empty (NaN) or not numeric.
WideRecords ==
    {WideRecord(iso, c2010, c2011, rank) :
        iso \in {"AFG", "CHE"},
        c2010 \in {Num(1), NoneValue, Str(<<"N/A">>)},
        c2011 \in {Absent, Num(2), Str(<<"N/A">>)},
        rank \in {Absent, Num(7)}}

\* pd.DataFrame(indicator_data).columns: the keys of the records in the
\* order of their first appearance.
RECURSIVE ColumnsOf(_)
ColumnsOf(records) ==
    IF records = <<>> THEN <<>>
    ELSE LET before == ColumnsOf(SubSeq(records, 1, Len(records) - 1))
             last == records[Len(records)]
             keys == [i \in DOMAIN last |-> last[i].k]
             IsNew(k) == \A j \in DOMAIN before : before[j] # k
         IN  before \o SelectSeq(keys, IsNew)

\* The columns that are not identifiers, whatever their name.
year_columns_without_isdigit(columns) ==
    LET IsValue(col) == col \notin {<<"ISO3">>, <<"Name">>, <<"indicator">>}
    IN  SelectSeq(columns, IsValue)

\* The columns that are not identifiers and whose name is all digits.
year_columns(columns) ==
    LET IsYear(col) == /\ col \notin {<<"ISO3">>, <<"Name">>, <<"indicator">>}
                       /\ isdigit(col)
    IN  SelectSeq(columns, IsYear)

\* raw_data.melt(id_vars, value_vars, 'year', 'value') and the renaming of
\* ISO3 and Name: for each value column in turn, one row per record; a
\* record without the column has NaN there.
RECURSIVE melt(_, _)
melt(raw_data, value_vars) ==
    IF value_vars = <<>> THEN <<>>
    ELSE [i \in DOMAIN raw_data |->
            [country_code |-> Get(raw_data[i], <<"ISO3">>, NoneValue),
             country |-> Get(raw_data[i], <<"Name">>, NoneValue),
             indicator |-> Get(raw_data[i], <<"indicator">>, NoneValue),
             year |-> Str(Head(value_vars)),
             value |-> Get(raw_data[i], Head(value_vars), NoneValue)]]
         \o melt(raw_data, Tail(value_vars))

\* df.dropna(subset=['value'])
dropna(df) ==
    LET HasValue(row) == row.value # NoneValue
    IN  SelectSeq(df, HasValue)

NgInit ==
    /\ indicator_data \in UNION {[1..n -> WideRecords] : n \in 0..MaxWide}
    /\ ClIdle

\* clean_data is entered: an empty indicator_data returns an empty
\* DataFrame, otherwise the records are melted to long form.
NgCall ==
    /\ cl_pc = "idle"
    /\ IF indicator_data = <<>>
       THEN cl_pc' = "returned" /\ rows' = <<>>
       ELSE /\ rows' = melt(indicator_data, year_columns(ColumnsOf(indicator_data)))
            /\ cl_pc' = "long"
    /\ UNCHANGED <<indicator_data, cl_record>>
    /\ UNCHANGED <<fh_vars, sdg_vars, wb_vars, fd_vars, hdr_vars>>

\* The long form: year and value made numeric, the rows without a value
\* dropped, the rest sorted by country_code, indicator and year.
NgFinish ==
    /\ cl_pc = "long"
    /\ LET df_long == dropna([i \in DOMAIN rows |->
                                 [rows[i] EXCEPT !.year = ToNumeric(@),
                                                 !.value = ToNumeric(@)]])
       IN  rows' = RowsOf(SortKeyed([i \in DOMAIN df_long |->
                      [key |-> <<RankOf(df_long[i].country_code),
                                 RankOf(df_long[i].indicator),
                                 RankOf(df_long[i].year)>>,
                       row |-> df_long[i]]]))
    /\ cl_pc' = "returned"
    /\ UNCHANGED <<indicator_data, cl_record>>
    /\ UNCHANGED <<fh_vars, sdg_vars, wb_vars, fd_vars, hdr_vars>>

\* ------------------------------------------------ WorldBankCleaner.clean_data
\* A record of the World Bank API with the given values under 'country',
\* 'countryiso3code', 'date' and 'value'; its 'indicator' is SP.POP.
MakeWbRecord(country, iso3, date, value) ==
    (IF country = Absent THEN <<>> ELSE <<Entry("country", country)>>)
    \o <<Entry("countryiso3code", Str(<<iso3>>)),
         Entry("indicator", Dict(<<Entry("id", Str(<<"SP.POP">>)),
                                   Entry("value", Str(<<"foo">>))>>)),
         Entry("date", date),
         Entry("value", value)>>

\* The records clean_data may be given: the date is a year or a quarter of
\* a year (written character by character), the value a number or null.
WbRecords ==
    {MakeWbRecord(country, iso3, date, value) :
        country \in {Absent, Dict(<<Entry("id", Str(<<"AF">>)),
                                    Entry("value", Str(<<"Afghanistan">>))>>)},
        iso3 \in {"AFG", "CHE"},
        date \in {Str(<<"2", "0", "1", "9">>), Str(<<"2", "0", "2", "0">>),
                  Str(<<"2", "0", "2", "0", "Q", "1">>)},
        value \in {Num(5), NoneValue}}

\* (rec.get(key) or {}).get(field)
NestedGet(rec, key, field) ==
    LET nested == Get(rec, key, NoneValue)
    IN  IF nested.kind = "dict" THEN Get(nested.d, field, NoneValue) ELSE NoneValue

\* int(rec.get("date")) if str(rec.get("date")).isdigit() else rec.get("date")
YearOfDate(rec) ==
    LET date == Get(rec, "date", NoneValue)
    IN  IF isdigit(ToStr(date)) THEN Num(IntOf(ToStr(date))) ELSE date

\* The row clean_data builds of a record.
WbRowOf(rec) ==
    [country |-> NestedGet(rec, "country", "value"),
     iso3 |-> Get(rec, "countryiso3code", NoneValue),
     indicator_code |-> NestedGet(rec, "indicator", "id"),
     indicator |-> NestedGet(rec, "indicator", "value"),
     year |-> YearOfDate(rec),
     value |-> Get(rec, "value", NoneValue)]

\* The place of a year in the descending order of its column: among the
\* values of mixed types the numbers sort before the strings, and None
\* comes last in either direction.
YearRankDescending(v) ==
    IF v.kind = "int" THEN 0 - v.n
    ELSE IF v.kind = "str" THEN 0 - 5000
    ELSE 9999

WbcInit ==
    /\ indicator_data \in UNION {[1..n -> WbRecords] : n \in 0..MaxInput}
    /\ ClIdle

\* clean_data is entered: rows = [] and the loop over indicator_data starts.
WbcCall ==
    /\ cl_pc = "idle"
    /\ cl_pc' = "loop"
    /\ rows' = <<>>
    /\ cl_record' = 1
    /\ UNCHANGED indicator_data
    /\ UNCHANGED <<fh_vars, sdg_vars, wb_vars, fd_vars, hdr_vars>>

\* One pass of the loop over indicator_data.
WbcRecord ==
    /\ cl_pc = "loop"
    /\ cl_record <= Len(indicator_data)
    /\ rows' = Append(rows, WbRowOf(indicator_data[cl_record]))
    /\ cl_record' = cl_record + 1
    /\ UNCHANGED <<indicator_data, cl_pc>>
    /\ UNCHANGED <<fh_vars, sdg_vars, wb_vars, fd_vars, hdr_vars>>

\* After the loop: the DataFrame of the rows, sorted by indicator-code and
\* iso3 ascending and year descending.
WbcFinish ==
    /\ cl_pc = "loop"
    /\ cl_record > Len(indicator_data)
    /\ rows' = RowsOf(SortKeyed([i \in DOMAIN rows |->
                  [key |-> <<RankOf(rows[i].indicator_code), RankOf(rows[i].iso3),
                             YearRankDescending(rows[i].year)>>,
                   row |-> rows[i]]]))
    /\ cl_pc' = "returned"
    /\ UNCHANGED <<indicator_data, cl_record>>
    /\ UNCHANGED <<fh_vars, sdg_vars, wb_vars, fd_vars, hdr_vars>>

\* ---------------------------------------------------- HDRCleaner.clean_data
\* A record of the HDR API with the given values under 'country', 'value'
\* and 'index'; its 'year' is 2020 and its 'indicator' GII.
MakeHdrRecord(country, value, index) ==
    <<Entry("iso3", Str(<<"AFG">>)), Entry("country", Str(<<country>>)),
      Entry("year", Num(2020))>>
    \o (IF value = Absent THEN <<>> ELSE <<Entry("value", value)>>)
    \o (IF index = Absent THEN <<>> ELSE <<Entry("index", index)>>)
    \o <<Entry("indicator", Str(<<"GII">>))>>

\* The records clean_data may be given: the value is missing, null, zero,
\* another number or not numeric; an 'index' may come with it.
HdrRecords ==
    {MakeHdrRecord(country, value, index) :
        country \in {"Afghanistan", "Switzerland"},
        value \in {Absent, NoneValue, Num(0), Num(5), Str(<<"N/A">>)},
        index \in {Absent, Num(7)}}

\* bool(v): None, 0 and the empty string are false.
Truthy(v) ==
    CASE v.kind = "none" -> FALSE
      [] v.kind = "int" -> v.n # 0
      [] v.kind = "str" -> v.s # <<>>
      [] OTHER -> TRUE

\* a or b
Or(a, b) == IF Truthy(a) THEN a ELSE b

\* The row clean_data builds of a record (the records here have no keys
\* beside the common fields).
HdrRowOf(record) ==
    [country_code |-> Or(Or(Get(record, "iso3", NoneValue),
                            Get(record, "countryCode", NoneValue)),
                         Get(record, "ISO3", NoneValue)),
     country |-> Or(Or(Get(record, "country", NoneValue),
                       Get(record, "countryName", NoneValue)),
                    Get(record, "Country", NoneValue)),
     year |-> Get(record, "year", NoneValue),
     value |-> Or(Or(Get(record, "value", NoneValue),
                     Get(record, "index", NoneValue)),
                  Get(record, "Value", NoneValue)),
     indicator |-> Get(record, "indicator", NoneValue)]

HcInit ==
    /\ indicator_data \in UNION {[1..n -> HdrRecords] : n \in 0..MaxInput}
    /\ ClIdle

\* clean_data is entered: an empty indicator_data returns an empty
\* DataFrame, otherwise rows = [] and the loop starts.
HcCall ==
    /\ cl_pc = "idle"
    /\ cl_pc' = IF indicator_data = <<>> THEN "returned" ELSE "loop"
    /\ rows' = <<>>
    /\ cl_record' = 1
    /\ UNCHANGED indicator_data
    /\ UNCHANGED <<fh_vars, sdg_vars, wb_vars, fd_vars, hdr_vars>>

\* One pass of the loop over indicator_data.
HcRecord ==
    /\ cl_pc = "loop"
    /\ cl_record <= Len(indicator_data)
    /\ rows' = Append(rows, HdrRowOf(indicator_data[cl_record]))
    /\ cl_record' = cl_record + 1
    /\ UNCHANGED <<indicator_data, cl_pc>>
    /\ UNCHANGED <<fh_vars, sdg_vars, wb_vars, fd_vars, hdr_vars>>

\* After the loop: the DataFrame of the rows, its value and year columns
\* made numeric, the rows without a value dropped, the rest sorted by
\* country, indicator and year.
HcFinish ==
    /\ cl_pc = "loop"
    /\ cl_record > Len(indicator_data)
    /\ LET df == dropna([i \in DOMAIN rows |->
                            [rows[i] EXCEPT !.value = ToNumeric(@),
                                            !.year = ToNumeric(@)]])
       IN  rows' = RowsOf(SortKeyed([i \in DOMAIN df |->
                      [key |-> <<RankOf(df[i].country), RankOf(df[i].indicator),
                                 RankOf(df[i].year)>>,
                       row |-> df[i]]]))
    /\ cl_pc' = "returned"
    /\ UNCHANGED <<indicator_data, cl_record>>
    /\ UNCHANGED <<fh_vars, sdg_vars, wb_vars, fd_vars, hdr_vars>>

\* ---------------------------------------- HDRFetcher.fetch_indicator_data
MaxPairs == 4            \* (indicator, year) pairs of one call

\* The entries indicators_config may hold: one without 'endpoint', one with.
IndicatorConfigs ==
    {<<Entry("code", Str(<<"GII">>))>>,
     <<Entry("code", Str(<<"HDI">>)), Entry("endpoint", Str(<<"query-detailed">>))>>}

\* What one request may end in: a JSON list of two records (the first with
\* an 'indicator' and a 'year' of its own), a JSON object, a status that
\* raise_for_status raises for, or an exception of requests.get.
HdrOutcomes ==
    {[kind |-> "list", type |-> "", status |-> 200,
      records |-> <<(<<Entry("indicator", Str(<<"raw">>)), Entry("country", Str(<<"AFG">>)),
                       Entry("year", Str(<<"1", "9", "9", "0">>))>>),
                    (<<Entry("country", Str(<<"CHE">>))>>)>>],
     [kind |-> "dict", type |-> "", status |-> 200,
      records |-> <<(<<Entry("value", Num(0))>>)>>],
     [kind |-> "raised", type |-> "HTTPError", status |-> 401, records |-> <<>>],
     [kind |-> "raised", type |-> "HTTPError", status |-> 500, records |-> <<>>],
     [kind |-> "raised", type |-> "ConnectionError", status |-> 0, records |-> <<>>]}

\* The except clauses with the RequestException clause left out.
HdrExceptClause_http_only(type) ==
    CASE IsInstance(type, "HTTPError") -> "HTTPError"
      [] OTHER -> "uncaught"

\* The first except clause of the try statement that catches an exception
\* of class type.
HdrExceptClause(type) ==
    CASE IsInstance(type, "HTTPError") -> "HTTPError"
      [] IsInstance(type, "RequestException") -> "RequestException"
      [] OTHER -> "uncaught"

\* record['indicator'] = indicator; record['year'] = year, for each record
\* of a response.
Tagged(records, indicator, y) ==
    [k \in DOMAIN records |-> Put(Put(records[k], "indicator", indicator), "year", Num(y))]

HdrIdle ==
    /\ hdr_pc = "idle"
    /\ hdr_i = 1
    /\ hdr_year = 0
    /\ all_records = <<>>
    /\ hdr_log = <<>>

\* The calls: up to MaxPairs (indicator, year) pairs, an empty
\* indicators_config and an empty year range among them.
HdrInit ==
    /\ \E n \in 0..MaxPairs : indicators_config \in [1..n -> IndicatorConfigs]
    /\ start_year = 2020
    /\ end_year \in 2019..(2019 + MaxPairs)
    /\ Len(indicators_config) * (end_year - start_year + 1) <= MaxPairs
    /\ HdrIdle

HdrAtRest == indicators_config = <<>> /\ start_year = 2020 /\ end_year = 2020 /\ HdrIdle

\* fetch_indicator_data is entered: all_records = [], and the loops start
\* (they have no pass when there is no indicator or no year).
HdrCall ==
    /\ hdr_pc = "idle"
    /\ all_records' = <<>>
    /\ hdr_i' = 1
    /\ hdr_year' = start_year
    /\ hdr_pc' = IF indicators_config = <<>> \/ start_year > end_year
                 THEN "return" ELSE "request"
    /\ UNCHANGED <<indicators_config, start_year, end_year, hdr_log>>
    /\ UNCHANGED <<fh_vars, sdg_vars, wb_vars, fd_vars, cl_vars>>

\* One pass of the loop over the years of one indicator: the request, the
\* tagging of its records or the except clause, and the step to the next
\* year or the next indicator.
HdrRequest ==
    /\ hdr_pc = "request"
    /\ LET indicator_config == indicators_config[hdr_i]
           indicator == Get(indicator_config, "code", NoneValue)
           endpoint == Get(indicator_config, "endpoint", Str(<<"query">>))
           next == IF hdr_year < end_year THEN [pc |-> "request", i |-> hdr_i, y |-> hdr_year + 1]
                   ELSE IF hdr_i < Len(indicators_config)
                        THEN [pc |-> "request", i |-> hdr_i + 1, y |-> start_year]
                        ELSE [pc |-> "return", i |-> hdr_i, y |-> hdr_year]
       IN  \E o \in HdrOutcomes :
             /\ hdr_log' = Append(hdr_log, [indicator |-> indicator, endpoint |-> endpoint,
                                            year |-> hdr_year, outcome |-> o])
             /\ IF o.kind = "raised" /\ HdrExceptClause(o.type) = "uncaught"
                THEN /\ hdr_pc' = "raised"
                     /\ UNCHANGED <<all_records, hdr_i, hdr_year>>
                ELSE /\ all_records' = all_records \o Tagged(o.records, indicator, hdr_year)
                     /\ hdr_pc' = next.pc
                     /\ hdr_i' = next.i
                     /\ hdr_year' = next.y
    /\ UNCHANGED <<indicators_config, start_year, end_year>>
    /\ UNCHANGED <<fh_vars, sdg_vars, wb_vars, fd_vars, cl_vars>>

\* return all_records
HdrReturn ==
    /\ hdr_pc = "return"
    /\ hdr_pc' = "returned"
    /\ UNCHANGED <<indicators_config, start_year, end_year, hdr_i, hdr_year,
                   all_records, hdr_log>>
    /\ UNCHANGED <<fh_vars, sdg_vars, wb_vars, fd_vars, cl_vars>>

\* ----------------------------------------------------------- specifications
\* A handler with the default FetchHandlerConfig (its delay of 0.5 s is one
\* tick here), on which get() is never called.
FhIdle ==
    /\ config = [max_retries |-> 8, initial_backoff |-> 2, max_backoff |-> 120,
                 backoff_multiplier |-> 2, delay_between_requests |-> 1,
                 retry_on_status |-> retry_on_status]
    /\ _last_request_time = 0
    /\ clock = Epoch
    /\ fh_pc = "idle"
    /\ attempt = 0
    /\ last_exception = None
    /\ context = ""
    /\ response = NoResponse
    /\ fh_outcome = NoResponse
    /\ calls = 0
    /\ requests = 0
    /\ sleeps = NoSleeps
    /\ last_failure = None
    /\ history = NoHistory

\* The parts a specification leaves out stay as constructed.
SdgAtRest ==
    /\ upstream = [sizes |-> <<1>>, announced |-> 0, later |-> 0]
    /\ geo_tree = RegionWithCountry
    /\ SdgIdle
WbAtRest == wb_upstream = [pages |-> 0, invalid_at |-> 0] /\ WbIdle
FdAtRest == fd_cfg = [bulk |-> TRUE, specs |-> <<>>, indicators |-> 1] /\ FdIdle
ClAtRest == indicator_data = <<>> /\ ClIdle

InitHandler == FhInit /\ SdgAtRest /\ WbAtRest /\ FdAtRest /\ ClAtRest /\ HdrAtRest
InitSdg == FhIdle /\ SdgInit /\ WbAtRest /\ FdAtRest /\ ClAtRest /\ HdrAtRest
InitWb == FhIdle /\ SdgAtRest /\ WbInit /\ FdAtRest /\ ClAtRest /\ HdrAtRest

FhNext == FhCall \/ FhLoop \/ FhRequest \/ FhHandle \/ FhExhausted

SdgNext == SdgCall \/ GetCountryCodes \/ SdgRequest \/ SdgProcess \/ SdgFinish

WbNext == WbCall \/ WbFetch \/ WbProcess

\* A session of get() calls on one FetchHandler.
SpecHandler == InitHandler /\ [][FhNext]_vars

\* requests.get against an endpoint that answers every request with a status
\* of retry_on_status.
FhRequestRetryable ==
    /\ FhRequest
    /\ response'.kind = "response"
    /\ response'.status \in config.retry_on_status

FhNextRetryable ==
    FhCall \/ FhLoop \/ FhRequestRetryable \/ FhHandle \/ FhExhausted

\* A session of get() calls against such an endpoint. get() runs on one
\* thread: once entered, its next statement is executed.
FairSpecRetryable ==
    /\ InitHandler
    /\ [][FhNextRetryable]_vars
    /\ WF_vars(FhLoop \/ FhRequestRetryable \/ FhHandle \/ FhExhausted)

\* One call of fetch_indicator_data against one endpoint.
SpecSdg == InitSdg /\ [][SdgNext]_vars

\* A call with no dimension_filters, from page 1 or page 2.
SdgCallUnfiltered == SdgCall /\ dimension_filters' = <<>>

\* One call of fetch_indicator_data with no dimension_filters against one
\* endpoint: the page loop. fetch_indicator_data runs on one thread: once
\* entered, its next statement is executed.
FairSpecSdg ==
    /\ InitSdg
    /\ [][SdgCallUnfiltered \/ GetCountryCodes \/ SdgRequest \/ SdgProcess
             \/ SdgFinish]_vars
    /\ WF_vars(GetCountryCodes \/ SdgRequest \/ SdgProcess \/ SdgFinish)

\* One call of fetch_indicator against one endpoint.
SpecWb == InitWb /\ [][WbNext]_vars

InitFetchData == FhIdle /\ SdgAtRest /\ WbAtRest /\ FdInit /\ ClAtRest /\ HdrAtRest

\* One run of FetchData.fetch.
SpecFetchData ==
    InitFetchData /\ [][FdStart \/ FdBulk \/ FdDimension \/ FdUnsdgDone
                            \/ FdWorldBank \/ FdWorldBankDone \/ FdNdGain
                            \/ FdReturn]_vars

\* The UN SDG part of a run of FetchData.fetch: the bulk fetch and the
\* dimension fetches.
SpecDimension ==
    InitFetchData /\ [][FdStart \/ FdBulk \/ FdDimension \/ FdUnsdgDone]_vars

InitClean == FhIdle /\ SdgAtRest /\ WbAtRest /\ FdAtRest /\ ClInit /\ HdrAtRest

\* One call of UNSDGCleaner.clean_data, for every input.
SpecClean == InitClean /\ [][ClCall \/ ClRecord \/ ClFinish]_vars

\* The call FetchData.fetch makes for the bulk indicators: page 1 and no
\* dimension_filters configured.
SdgCallBulk ==
    /\ SdgCall
    /\ parameters'.page = 1
    /\ dimension_filters' = <<>>

\* A session of fetch_indicator_data calls on one UNSDGFetcher.
SpecSession ==
    InitSdg /\ [][SdgCall \/ SdgCallAgain \/ GetCountryCodes \/ SdgRequest
                      \/ SdgProcess \/ SdgFinish]_vars

\* The bulk call on page 1 with any dimension_filters.
SdgCallFirstPage == SdgCall /\ parameters'.page = 1

\* A page request that the endpoint answers.
SdgRequestAnswered == SdgRequest /\ sdg_pc' = "process"

InitRecords ==
    /\ FhIdle
    /\ upstream \in RecordUpstreams
    /\ geo_tree = RegionWithCountry
    /\ SdgIdle
    /\ WbAtRest
    /\ FdAtRest
    /\ ClAtRest /\ HdrAtRest

\* One fetch of a one-page endpoint that answers, for every list of records
\* on its page: the flattening and the filtering of these records.
SpecRecords ==
    InitRecords /\ [][SdgCallFirstPage \/ GetCountryCodes \/ SdgRequestAnswered
                          \/ SdgProcess \/ SdgFinish]_vars

InitGeo ==
    /\ FhIdle
    /\ upstream = [sizes |-> <<1>>, announced |-> 0, later |-> 0]
    /\ \E n \in 0..MaxNodes :
         \E pa \in [1..n -> 0..n], ty \in [1..n -> {"Country", "Region"}],
            co \in [1..n -> {4, 8}] :
             geo_tree = [parent |-> pa, type |-> ty, code |-> co]
    /\ IsGeoTree(geo_tree)
    /\ SdgIdle
    /\ WbAtRest
    /\ FdAtRest
    /\ ClAtRest /\ HdrAtRest

\* The resolution of the country codes at the start of a fetch, for every
\* geo-area tree.
SpecGeo == InitGeo /\ [][SdgCallBulk \/ GetCountryCodes]_vars

InitNdGain == FhIdle /\ SdgAtRest /\ WbAtRest /\ FdAtRest /\ NgInit /\ HdrAtRest

\* One call of NDGAINClean.clean_data, for every wide input.
SpecNdGain == InitNdGain /\ [][NgCall \/ NgFinish]_vars

InitWbClean == FhIdle /\ SdgAtRest /\ WbAtRest /\ FdAtRest /\ WbcInit /\ HdrAtRest

\* One call of WorldBankCleaner.clean_data, for every input.
SpecWbClean == InitWbClean /\ [][WbcCall \/ WbcRecord \/ WbcFinish]_vars

InitHdr == FhIdle /\ SdgAtRest /\ WbAtRest /\ FdAtRest /\ ClAtRest /\ HdrInit

\* One call of HDRFetcher.fetch_indicator_data, for every configuration of
\* up to MaxPairs requests.
SpecHdr == InitHdr /\ [][HdrCall \/ HdrRequest \/ HdrReturn]_vars

InitHdrClean == FhIdle /\ SdgAtRest /\ WbAtRest /\ FdAtRest /\ HcInit /\ HdrAtRest

\* One call of HDRCleaner.clean_data, for every input.
SpecHdrClean == InitHdrClean /\ [][HcCall \/ HcRecord \/ HcFinish]_vars

\* ------------------------------------------------------------------ claims
InCall == fh_pc \in {"loop", "request", "handle"}

\* What holds of a call while every attempt so far got a retryable status.
C1_OnlyRetryable ==
    history.only_retryable =>
        /\ requests <= config.max_retries
        /\ fh_pc # "returned"
        /\ fh_pc = "raised" =>
               requests = config.max_retries /\ fh_outcome.kind = "raised"
\* C1: a get() call whose every attempt is answered with a retryable status
\* issues exactly max_retries requests and then raises an error: it never
\* issues a request beyond max_retries, it does not return, and it ends.
C1_RetryableStatusExhausts ==
    /\ []C1_OnlyRetryable
    /\ [](InCall => history.only_retryable)
    /\ [](InCall => <>(fh_pc = "raised" /\ requests = config.max_retries))
C1_Witness ==
    /\ fh_pc = "raised"
    /\ history.only_retryable
    /\ requests = config.max_retries
    /\ requests >= 2
    /\ last_failure.status = 503

\* A 4xx status other than 429.
ClientError(status) == status >= 400 /\ status < 500 /\ status # 429
C2_Step ==
    (fh_pc = "handle" /\ response.kind = "response" /\ ClientError(response.status))
        => /\ fh_pc' = "raised"
           /\ fh_outcome' = Raised(Exc("HTTPError", attempt, response.status, ""))
           /\ requests' = requests
           /\ sleeps' = sleeps
           /\ clock' = clock
C2_FirstAttempt ==
    (response.kind = "response" /\ ClientError(response.status) /\ attempt = 1
        /\ fh_pc \in {"handle", "raised"})
        => requests = 1 /\ sleeps.backoff = 0
\* C2: a 4xx status other than 429 fails the call in the attempt that got it,
\* with no backoff sleep and no further request; got on the first attempt, the
\* call has issued one request and has slept no backoff when it raises.
C2_NonRetryableFailsAtOnce == []C2_FirstAttempt /\ [][C2_Step]_vars
C2_Witness ==
    /\ fh_pc = "raised"
    /\ attempt = 1
    /\ fh_outcome = Raised(Exc("HTTPError", 1, 404, ""))
    /\ requests = 1
    /\ sleeps.pace = 1
    /\ sleeps.backoff = 0

\* The step that sleeps the backoff after a failed attempt.
C3_Step ==
    (fh_pc = "handle" /\ fh_pc' = "loop")
        => /\ attempt \in 1..config.max_retries
           /\ clock' - clock =
                Min(config.initial_backoff * (config.backoff_multiplier ^ (attempt - 1)),
                    config.max_backoff)
           /\ clock' - clock <= config.max_backoff
           /\ sleeps'.wait = clock' - clock
\* C3: the sleep after the n-th failed attempt lasts
\* min(initial_backoff * backoff_multiplier^(n-1), max_backoff) and so never
\* more than max_backoff, for n in 1..max_retries.
C3_BackoffFormula == [][C3_Step]_vars
C3_Witness ==
    /\ sleeps.backoff >= 2
    /\ sleeps.wait = config.max_backoff
    /\ config.initial_backoff * (config.backoff_multiplier ^ (sleeps.backoff_after - 1))
         > config.max_backoff

\* get() has raised after max_retries attempts, the last of them a failure
\* that is retried.
FinalAttemptFailed ==
    /\ fh_pc = "raised"
    /\ requests >= 1
    /\ requests = config.max_retries
    /\ last_failure.type # "HTTPError"
\* C4: when the retries are exhausted, the error raised is that of the final
\* attempt and carries the context label.
C4_ExhaustedCarriesLastError ==
    FinalAttemptFailed =>
        /\ fh_outcome.exc.attempt = last_failure.attempt
        /\ fh_outcome.exc.status = last_failure.status
        /\ fh_outcome.exc.context = context

C6_Step ==
    _last_request_time' # _last_request_time =>
        /\ fh_pc = "request"
        /\ requests' = requests + 1
        /\ response'.kind = "response"
\* C6: _last_request_time changes only in the step that issues an HTTP
\* request; the pacing sleep, the backoff sleep, the entry of get() and the
\* exhaustion path leave it as it is.
C6_TimestampFrame == [][C6_Step]_vars
C6_Witness ==
    /\ fh_pc = "raised"
    /\ requests = config.max_retries
    /\ sleeps.pace = 1
    /\ sleeps.backoff >= 1
    /\ _last_request_time > 0
    /\ _last_request_time < clock

\* The pages the endpoint's page 1 announces (1 when it names no totalPages).
AnnouncedPages == IF upstream.announced = 0 THEN 1 ELSE upstream.announced

\* The ids of the records of pages p..n of the endpoint, in page order.
RECURSIVE IdsOfPages(_, _)
IdsOfPages(p, n) ==
    IF p > n THEN <<>>
    ELSE [i \in 1..upstream.sizes[p] |-> <<Digits[p], Digits[i]>>]
         \o IdsOfPages(p + 1, n)

IdsOf(records) == [i \in DOMAIN records |-> Get(records[i], "id", Str(<<>>)).s]

\* C7: started at page 1 against an endpoint holding the N pages its page 1
\* announces, fetch_indicator_data requests the pages 1..N in increasing order,
\* each once apart from the attempts it retried, and with no filter active it
\* returns the records of pages 1..N in page order.
C7_AllPagesInOrder ==
    (sdg_pc = "returned" /\ parameters.page = 1
        /\ AnnouncedPages <= Len(upstream.sizes))
    => /\ {sdg_log[i] : i \in DOMAIN sdg_log} = 1..AnnouncedPages
       /\ \A i \in DOMAIN sdg_log : i > 1 => sdg_log[i - 1] <= sdg_log[i]
       /\ Len(sdg_log) = AnnouncedPages + sdg_failed.attempts
       /\ sdg_failed.attempts = 0 => sdg_log = [i \in 1..AnnouncedPages |-> i]
       /\ (valid_countries = {} /\ dimension_filters = <<>>)
            => IdsOf(sdg_result.data) = IdsOfPages(1, AnnouncedPages)
C7_Witness ==
    /\ sdg_pc = "returned"
    /\ parameters.page = 1
    /\ upstream = [sizes |-> <<2, 2, 1>>, announced |-> 3, later |-> 0]
    /\ sdg_log = <<1, 2, 3>>
    /\ valid_countries = {}
    /\ dimension_filters = <<>>
    /\ Len(sdg_result.data) = 5

\* C8: when the request for a page fails for good (a status that is not
\* retried, or the tries used up), fetch_indicator_data raises and returns
\* nothing, whatever pages it has accumulated.
C8_FailureReturnsNothing ==
    /\ sdg_failed.fatal # "none" => sdg_pc = "raised"
    /\ sdg_pc = "raised" => sdg_failed.fatal # "none" /\ sdg_result = NoResult
C8_Witness ==
    /\ sdg_pc = "raised"
    /\ sdg_failed.fatal_page = 3
    /\ Len(all_data.data) >= 2
    /\ sdg_result = NoResult

\* C9: a page request of fetch_indicator_data fails for good on a retryable
\* status (429, 500, 502, 503, 504) or a timeout or connection failure only
\* once the tries of that page are used up.
C9_RetryableRetriedToBudget ==
    (sdg_pc = "raised"
        /\ (sdg_failed.fatal = "RequestException"
            \/ sdg_failed.fatal_status \in retry_on_status))
    => sdg_failed.fatal_tries = max_retries

\* C10: a fetch call answered with a 4xx status other than 429 fails at once:
\* it has issued one request and it raises.
C10_ClientErrorNotRetried ==
    ClientError(wb_seen.first) => wb_seen.requests = 1 /\ wb_pc = "raised"

\* The nodes of the tree whose type is "Country".
CountryNodes(tree) == {i \in DOMAIN tree.type : tree.type[i] = "Country"}

\* C11: for every geo-area tree, a _get_country_codes whose request succeeded
\* returns exactly the geoAreaCode, as a string, of the nodes of type
\* "Country", at whatever depth, and of no other node.
C11_CountryCodesOfTree ==
    geo_outcome = "ok" =>
        valid_countries = {Decimal(geo_tree.code[i]) : i \in CountryNodes(geo_tree)}
C11_Witness ==
    /\ geo_outcome = "ok"
    /\ geo_tree = [parent |-> <<0, 1, 2, 3>>,
                   type |-> <<"Region", "Country", "Region", "Country">>,
                   code |-> <<8, 8, 4, 4>>]
    /\ valid_countries = {<<"4">>, <<"8">>}

\* The ids of the records of the pages the call got, in page order: the
\* pages from its first page to the last page it requested that the
\* endpoint holds.
RetrievedIds ==
    LET last == CHOOSE p \in {sdg_log[i] : i \in DOMAIN sdg_log} :
                    \A i \in DOMAIN sdg_log : sdg_log[i] <= p
    IN  IdsOfPages(parameters.page, Min(last, Len(upstream.sizes)))

\* C12: when the request to GeoArea/Tree fails, _get_country_codes returns
\* the empty set and raises nothing (the fetch goes on to its pages and fails
\* only if a page request fails), and the fetch filters no record by country:
\* it returns every record it retrieved, less those the dimension filter
\* drops (of the endpoint's records, the first of each page carries 'F').
C12_GeoFailureFailsOpen ==
    geo_outcome \in GeoOutcomes \ {"ok"} =>
        /\ valid_countries = {}
        /\ sdg_pc # "countries"
        /\ sdg_pc = "raised" => sdg_failed.fatal # "none"
        /\ sdg_pc = "returned" =>
              LET Passes(id) == dimension_filters = <<>> \/ id[2] = "1"
              IN  IdsOf(sdg_result.data) = SelectSeq(RetrievedIds, Passes)
C12_Witness ==
    /\ geo_outcome = "ConnectionError"
    /\ sdg_pc = "returned"
    /\ dimension_filters = <<>>
    /\ IdsOf(sdg_result.data) = <<(<<"1", "1">>), (<<"1", "2">>), (<<"2", "1">>)>>
    /\ Get(sdg_result.data[2], "geoAreaCode", Str(<<>>)) = Str(<<"9", "0">>)

\* C13: in a session of fetches on one UNSDGFetcher the GeoArea/Tree
\* endpoint is requested, and the set of country codes built, at most once.
C13_TreeRequestedOnce == geo_requests <= 1

\* The records of the endpoint's page, flattened.
FlatRecords == FlattenAll(upstream.records[1])

\* The record has a geo code whose string form is in valid_countries.
IsMember(record) ==
    \E i \in DOMAIN record :
        /\ record[i].k = "geoAreaCode"
        /\ \/ record[i].v.kind = "str" /\ record[i].v.s \in valid_countries
           \/ record[i].v.kind = "int" /\ Decimal(record[i].v.n) \in valid_countries

Members == SelectSeq(FlatRecords, IsMember)

\* C14 as stated: with a non-empty set of country codes the records
\* returned are exactly the flattened records whose geo code is in the set,
\* in their order.
C14_ReturnedAreTheMembers ==
    (sdg_pc = "returned" /\ valid_countries # {}) => sdg_result.data = Members

\* C14 amended: with a non-empty set of country codes every record returned
\* is a flattened record whose geo code is in the set, the records returned
\* keep the order they had, and with no dimension filter values they are
\* exactly the flattened records whose geo code is in the set.
C14_ReturnedAreMembers ==
    (sdg_pc = "returned" /\ valid_countries # {}) =>
        LET Returned(record) ==
                \E i \in DOMAIN sdg_result.data : sdg_result.data[i] = record
        IN  /\ \A i \in DOMAIN sdg_result.data : IsMember(sdg_result.data[i])
            /\ sdg_result.data = SelectSeq(Members, Returned)
            /\ dimension_filters = <<>> => sdg_result.data = Members
C14_Witness ==
    /\ sdg_pc = "returned"
    /\ valid_countries = {<<"4">>}
    /\ dimension_filters = <<>>
    /\ upstream.records[1] = <<MakeRecord(Str(<<"9", "0">>), Absent, Absent),
                               MakeRecord(Num(4), Str(<<"M">>), Absent)>>
    /\ sdg_result.data = <<MakeRecord(Num(4), Str(<<"M">>), Absent)>>

\* The flattened records that pass the country filter.
PassedCountry ==
    LET Passes(record) == valid_countries = {} \/ IsMember(record)
    IN  SelectSeq(FlatRecords, Passes)

\* One of the filter values appears in the string form of one of the
\* record's values.
AppearsAmongValues(record) ==
    \E i \in DOMAIN dimension_filters : \E j \in DOMAIN record :
        IsSubstr(dimension_filters[i], Repr(record[j].v))

\* C15: with dimension filter values, a record that passed the country
\* filter is returned if and only if one of the filter values appears in the
\* string form of one of its values; without any, every record that passed
\* the country filter is returned.
C15_DimensionFilterKeeps ==
    sdg_pc = "returned" =>
        /\ dimension_filters # <<>> =>
              sdg_result.data = SelectSeq(PassedCountry, AppearsAmongValues)
        /\ dimension_filters = <<>> => sdg_result.data = PassedCountry
C15_Witness ==
    /\ sdg_pc = "returned"
    /\ valid_countries = {<<"4">>}
    /\ dimension_filters = <<(<<"M">>), (<<"F">>)>>
    /\ upstream.records[1] =
          <<MakeRecord(Str(<<"4">>), Absent, Absent),
            MakeRecord(Str(<<"4">>), Absent, Dict(<<Entry("Sex", Str(<<"F">>))>>))>>
    /\ sdg_result.data = <<MakeRecord(Str(<<"4">>), Str(<<"F">>), Absent)>>

\* a == b for two dicts: the same keys with the same values.
SameDict(a, b) ==
    {<<a[i].k, a[i].v>> : i \in DOMAIN a} = {<<b[i].k, b[i].v>> : i \in DOMAIN b}

\* The fetch returned every record of the page, flattened: no filter was
\* active.
ReturnedUnfiltered ==
    /\ sdg_pc = "returned"
    /\ valid_countries = {}
    /\ dimension_filters = <<>>

\* C16: flattening is idempotent, flatten(flatten(r)) = flatten(r) for every
\* record r, whatever its 'dimensions' holds; and a record with no
\* 'dimensions' key is returned unchanged.
C16_FlattenIdempotent ==
    ReturnedUnfiltered =>
        \A i \in DOMAIN sdg_result.data :
            /\ SameDict(Flatten(sdg_result.data[i]), sdg_result.data[i])
            /\ ~HasKey(upstream.records[1][i], "dimensions")
                  => sdg_result.data[i] = upstream.records[1][i]

\* C17: a key of the nested 'dimensions' mapping has the nested value in the
\* flattened record, also when the record has that key at the top level;
\* every other top-level key but 'dimensions' keeps its top-level value.
C17_NestedValueWins ==
    ReturnedUnfiltered =>
        /\ Len(sdg_result.data) = Len(upstream.records[1])
        /\ \A i \in DOMAIN sdg_result.data :
              LET raw == upstream.records[1][i]
                  flat == sdg_result.data[i]
                  nested == Get(raw, "dimensions", Absent)
                  dims == IF nested.kind = "dict" THEN nested.d ELSE <<>>
              IN  /\ \A j \in DOMAIN dims :
                        /\ HasKey(flat, dims[j].k)
                        /\ Get(flat, dims[j].k, Absent) = dims[j].v
                  /\ \A j \in DOMAIN raw :
                        (raw[j].k # "dimensions" /\ ~HasKey(dims, raw[j].k))
                            => /\ HasKey(flat, raw[j].k)
                               /\ Get(flat, raw[j].k, Absent) = raw[j].v
C17_Witness ==
    /\ ReturnedUnfiltered
    /\ upstream.records[1] =
          <<MakeRecord(Str(<<"4">>), Str(<<"M">>),
                       Dict(<<Entry("Sex", Str(<<"F">>))>>))>>
    /\ sdg_result.data = <<MakeRecord(Str(<<"4">>), Str(<<"F">>), Absent)>>

\* C18: in FetchData.fetch a source whose fetch fails does not keep the other
\* sources from being fetched and returned: when fetch is over, every source
\* that did not fail has been fetched, and fetch ends abnormally only when
\* every source failed.
C18_FailureLeavesOtherSources ==
    fd_pc \in {"returned", "raised"} =>
        /\ fd_fetched = Sources \ fd_failed
        /\ fd_pc = "raised" => fd_failed = Sources

\* The records main_list got from the dimension fetches.
DimensionRecords ==
    LET OfDimension(record) == record.item > 0
    IN  SelectSeq(main_list, OfDimension)

\* C19: a dimension fetch goes through all its dimension values, whichever
\* of them fail: the records it adds are those of every value whose fetch
\* succeeded, each once, in the order of dimension_values.
C19_FailedValueSkipped ==
    /\ \A s \in DOMAIN dim_log : Len(dim_log[s]) = fd_cfg.specs[s]
    /\ \A p \in DOMAIN DimensionRecords :
          LET record == DimensionRecords[p]
          IN  /\ record.item \in DOMAIN dim_log
              /\ record.value \in DOMAIN dim_log[record.item]
              /\ record.n <= dim_log[record.item][record.value]
    /\ \A s \in DOMAIN dim_log : \A v \in DOMAIN dim_log[s] :
          \A k \in 1..dim_log[s][v] :
              Cardinality({p \in DOMAIN DimensionRecords :
                              /\ DimensionRecords[p].item = s
                              /\ DimensionRecords[p].value = v
                              /\ DimensionRecords[p].n = k}) = 1
    /\ \A p, q \in DOMAIN DimensionRecords :
          p < q =>
            LET a == DimensionRecords[p]
                b == DimensionRecords[q]
            IN  \/ a.item < b.item
                \/ a.item = b.item /\ a.value < b.value
                \/ a.item = b.item /\ a.value = b.value /\ a.n < b.n
C19_Witness ==
    /\ dim_log = <<(<<1, -1, 2>>)>>
    /\ Len(DimensionRecords) = 3
    /\ DimensionRecords[1].value = 1
    /\ DimensionRecords[2].value = 3
    /\ DimensionRecords[3].value = 3

\* C20: every row clean_data produces has an indicator that is not null,
\* whatever the record it is made of, a record with no 'indicator' or with
\* an empty one included: no record is left without a row, and no row is
\* without an indicator.
C20_IndicatorNeverNull ==
    /\ cl_pc # "raised"
    /\ \A i \in DOMAIN rows : rows[i].indicator # NoneValue

\* C21: no row of the batch an API-sourced normalizer returns has a null
\* value: a record whose value is not numeric is coerced to null and then
\* dropped (stated of UNSDGCleaner.clean_data).
C21_NoNullValue ==
    cl_pc = "returned" => \A i \in DOMAIN rows : rows[i].value # NoneValue

\* The year columns of the wide input and the cell of record i in column c
\* (null when the record has no such column).
YearColumnsOfInput ==
    {c \in UNION {{indicator_data[i][k].k : k \in DOMAIN indicator_data[i]} :
                     i \in DOMAIN indicator_data} :
        \A k \in DOMAIN c : c[k] \in {"0", "1", "2", "3", "4", "5", "6", "7", "8", "9"}}
CellOf(i, c) == Get(indicator_data[i], c, NoneValue)

\* C22: the ND-GAIN normalizer retains the rows whose value is null after
\* coercion: a (country, year) cell of the wide input that is empty or not
\* numeric still yields an output row, with value null.
C22_NullCellKept ==
    cl_pc = "returned" =>
        \A i \in DOMAIN indicator_data : \A c \in YearColumnsOfInput :
            CellOf(i, c).kind # "int" =>
                \E j \in DOMAIN rows :
                    /\ rows[j].country_code = Get(indicator_data[i], <<"ISO3">>, NoneValue)
                    /\ rows[j].year = Num(IntOf(c))
                    /\ rows[j].value = NoneValue

\* The sort key (country, indicator, year) of a row, null last.
SortKeyOf(row) == <<RankOf(row.country), RankOf(row.indicator), RankOf(row.year)>>

\* C23: the batch a normalizer returns is sorted ascending by (country,
\* indicator, year): of two adjacent output rows the earlier one is not
\* greater than the later one (stated of WorldBankCleaner.clean_data, for
\* the batches whose years are all integers).
C23_SortedByCountryIndicatorYear ==
    (cl_pc = "returned" /\ \A j \in DOMAIN rows : rows[j].year.kind = "int") =>
        \A j \in 1..(Len(rows) - 1) :
            ~KeyLess(SortKeyOf(rows[j + 1]), SortKeyOf(rows[j]))

\* The 'date' of record i of the input, as a string.
DateOf(i) == ToStr(Get(indicator_data[i], "date", NoneValue))

\* C24: the normalizer coerces year to an integer and turns a non-numeric
\* year into null: in the batch of the World Bank normalizer every year is
\* an integer or null, a record whose date is numeric has a row with that
\* integer and a record whose date is not numeric (2020Q1) has a row with
\* year null.
C24_YearIntegerOrNull ==
    cl_pc = "returned" =>
        /\ \A j \in DOMAIN rows : rows[j].year.kind \in {"int", "none"}
        /\ \A i \in DOMAIN indicator_data :
             \E j \in DOMAIN rows :
                 rows[j].year = IF isdigit(DateOf(i)) THEN Num(IntOf(DateOf(i)))
                                ELSE NoneValue

\* The (record, year column) pairs of the wide input whose cell is numeric,
\* and the long row the claim gives for such a pair.
NumericCells ==
    {p \in (DOMAIN indicator_data) \X YearColumnsOfInput : CellOf(p[1], p[2]).kind = "int"}
LongRowOf(p) ==
    [country_code |-> Get(indicator_data[p[1]], <<"ISO3">>, NoneValue),
     country |-> Get(indicator_data[p[1]], <<"Name">>, NoneValue),
     indicator |-> Get(indicator_data[p[1]], <<"indicator">>, NoneValue),
     year |-> Num(IntOf(p[2])),
     value |-> CellOf(p[1], p[2])]

GoodResponse ==
    /\ fh_pc = "handle"
    /\ response.kind = "response"
    /\ response.status \notin config.retry_on_status
    /\ response.status \notin 400..599

\* Such a response is returned by the next step with no request and no
\* sleep, and once get() has returned only a new call follows.
C26_Step ==
    /\ GoodResponse => /\ fh_pc' = "returned"
                       /\ fh_outcome' = response
                       /\ requests' = requests
                       /\ sleeps' = sleeps
                       /\ clock' = clock
    /\ fh_pc = "returned" => calls' = calls + 1 /\ requests' = 0

\* C26: in one FetchHandler.get call the number of HTTP requests issued
\* never exceeds max_retries, and as soon as an attempt yields a response
\* whose status is neither retryable nor an HTTP error the call returns
\* that response with no further request and no further sleep.
C26_BoundedRequests == [](requests <= config.max_retries) /\ [][C26_Step]_vars

\* get() has returned a response of status 200 on its last permitted
\* attempt, after a retry with its backoff sleep.
C26_Witness ==
    /\ fh_pc = "returned"
    /\ fh_outcome.kind = "response" /\ fh_outcome.status = 200
    /\ requests = config.max_retries /\ requests = 2
    /\ sleeps.backoff = 1

\* C27: the page loop of fetch_indicator_data reads totalPages and appends
\* to the data list of the accumulator only after a response has
\* established them, whatever the initial page: when the pass for a page
\* after the first is about to append a non-empty response, all_data has its
\* 'data' list and totalPages is bound.
C27_ReadsOnlyEstablished ==
    (sdg_pc = "process" /\ ~IsEmptyBody(data) /\ page > 1)
    => "data" \in all_data.keys /\ totalPages # Unbound

\* The page of the last request issued and the first page the endpoint
\* answers with an empty response.
LastRequested == sdg_log[Len(sdg_log)]
FirstEmptyPage == Len(upstream.sizes) + 1

\* What holds of the page loop of a call that started at page 1: no page
\* after the first empty one or after the one that reaches totalPages is
\* requested; a call that has returned ended at one of these two pages; one
\* that ended at the empty page k returns the records of pages 1..k-1 (with
\* no filter active), and none at all when k = 1.
C28_State ==
    parameters.page = 1 =>
        /\ \A i \in DOMAIN sdg_log :
               sdg_log[i] <= FirstEmptyPage /\ sdg_log[i] <= AnnouncedPages
        /\ sdg_pc = "returned" =>
               /\ sdg_log # <<>>
               /\ LastRequested = FirstEmptyPage \/ LastRequested = AnnouncedPages
               /\ (LastRequested = FirstEmptyPage
                     /\ valid_countries = {} /\ dimension_filters = <<>>)
                  => IdsOf(sdg_result.data) = IdsOfPages(1, LastRequested - 1)
               /\ FirstEmptyPage = 1 => sdg_result.data = <<>>

\* An empty response ends the page loop without an error: the fetch goes on
\* to return.
C28_Step ==
    /\ (sdg_pc = "process" /\ page = FirstEmptyPage) => sdg_pc' = "finish"
    /\ sdg_pc = "finish" => sdg_pc' = "returned"

\* C28: the page loop of fetch_indicator_data always terminates: it stops
\* after the page whose number reaches totalPages or at the first empty
\* response; an empty response for page k > 1 ends the fetch without error
\* and returns the records of pages 1..k-1, and an empty response for page 1
\* returns a result whose data list is empty.
C28_PaginationTerminates ==
    /\ []C28_State
    /\ [][C28_Step]_vars
    /\ (sdg_pc = "countries" ~> sdg_pc \in {"returned", "raised", "crashed"})

\* A fetch from page 1 of an endpoint that announces three pages and holds
\* two has returned, after the empty response for page 3, the three records
\* of pages 1 and 2.
C28_Witness ==
    /\ sdg_pc = "returned"
    /\ parameters.page = 1
    /\ upstream.sizes = <<2, 1>> /\ upstream.announced = 3
    /\ LastRequested = 3
    /\ valid_countries = {} /\ dimension_filters = <<>>
    /\ Len(sdg_result.data) = 3

\* The years of the range, and the indicator and the year of the k-th pair
\* in configuration order then ascending year.
YearsInRange == IF end_year < start_year THEN 0 ELSE end_year - start_year + 1
PairIndicator(k) ==
    Get(indicators_config[((k - 1) \div YearsInRange) + 1], "code", NoneValue)
PairYear(k) == start_year + ((k - 1) % YearsInRange)

\* The records of the requests of a log that succeeded, each with the
\* number of its request.
RECURSIVE RecordsFetched(_)
RecordsFetched(log) ==
    IF log = <<>> THEN <<>>
    ELSE LET last == log[Len(log)]
         IN  RecordsFetched(SubSeq(log, 1, Len(log) - 1))
             \o (IF last.outcome.kind = "raised" THEN <<>>
                 ELSE [j \in DOMAIN last.outcome.records |->
                          [request |-> Len(log), record |-> last.outcome.records[j]]])

KeysOf(r) == {r[i].k : i \in DOMAIN r}

\* C29: in HDRFetcher.fetch_indicator_data a failed request is skipped
\* without aborting: the k-th request is that of the k-th (indicator, year)
\* pair in configuration order then ascending year, the call never raises,
\* and once it has returned every pair has been requested exactly once and
\* the result holds, in request order, the records of the requests that
\* succeeded, each tagged with the indicator and the year of its request.
C29_FailedPairSkipped ==
    /\ hdr_pc # "raised"
    /\ \A k \in DOMAIN hdr_log :
           /\ k <= Len(indicators_config) * YearsInRange
           /\ hdr_log[k].indicator = PairIndicator(k)
           /\ hdr_log[k].year = PairYear(k)
    /\ hdr_pc = "returned" =>
           LET fetched == RecordsFetched(hdr_log)
           IN  /\ Len(hdr_log) = Len(indicators_config) * YearsInRange
               /\ Len(all_records) = Len(fetched)
               /\ \A j \in DOMAIN fetched :
                      LET rec == all_records[j]
                          raw == fetched[j].record
                          k == fetched[j].request
                      IN  /\ Get(rec, "indicator", Absent) = PairIndicator(k)
                          /\ Get(rec, "year", Absent) = Num(PairYear(k))
                          /\ KeysOf(rec) = KeysOf(raw) \cup {"indicator", "year"}
                          /\ \A key \in KeysOf(raw) \ {"indicator", "year"} :
                                 Get(rec, key, Absent) = Get(raw, key, Absent)

\* Two indicators over two years: the first request was refused (401), the
\* second failed to connect, the other two succeeded, and the call returned
\* the three records of these two.
C29_Witness ==
    /\ hdr_pc = "returned"
    /\ Len(indicators_config) = 2 /\ end_year = 2021
    /\ Len(hdr_log) = 4
    /\ hdr_log[1].outcome.status = 401
    /\ hdr_log[2].outcome.type = "ConnectionError"
    /\ hdr_log[3].outcome.kind = "list"
    /\ hdr_log[4].outcome.kind = "dict"
    /\ Len(all_records) = 3

\* C30: HDRCleaner.clean_data drops a record only when its value is null or
\* not numeric after coercion: every record whose 'value' field is a number,
\* the number 0 included, appears in the output with that same value.
C30_NumericValueKept ==
    cl_pc = "returned" =>
        \A i \in DOMAIN indicator_data :
            Get(indicator_data[i], "value", NoneValue).kind = "int" =>
                \E j \in DOMAIN rows :
                    /\ rows[j].value = Get(indicator_data[i], "value", NoneValue)
                    /\ rows[j].country = Get(indicator_data[i], "country", NoneValue)
                    /\ rows[j].year = Get(indicator_data[i], "year", NoneValue)

====
